---- MODULE Spec2Model ----
(***************************************************************************)
(* A model of the retrieval engine's code graph, overlay, graph manager,   *)
(* evaluation agent and pipeline.  Each layer has its own variables and    *)
(* its own specification; a specification leaves the other layers idle.   *)
(***************************************************************************)
EXTENDS Integers, Sequences, FiniteSets, TLC

VARIABLES
    cg,          \* CodeGraph under test: nodes, edges, nodesByPath, edgesByNode
    lastCall,    \* the last CodeGraph method called on cg and whether it threw
    base,        \* the graph a DiffOverlay is applied to
    ops,         \* DiffOverlay.operations, an append-only log
    applied,     \* outcome of the last DiffOverlay.apply(base)
    tree,        \* the source tree the GraphBuilder reads: file -> content version
    store,       \* GraphStore: the saved graph, if any
    heap,        \* the CodeGraph objects alive, by reference
    baseGraph,   \* GraphManager.baseGraph: a reference or Null
    overlay,     \* GraphManager.overlay: the pending DiffOverlay, if any
    overlayCache,        \* GraphManager.overlayCache: a reference or Null
    overlayCacheDirty,   \* GraphManager.overlayCacheDirty
    overlayModifiedPaths,\* GraphManager.overlayModifiedPaths
    hookLog,     \* the GraphOverlayHooks calls made so far, in order
    nextOverlayId,       \* overlay ids handed out so far (nanoid never repeats)
    mgrCall,     \* the last call on the GraphManager (or its client) and how it ended
    returned,    \* the graph object that call handed back
    config,      \* LangGraphPipeline.config, resolved by the constructor
    state,       \* run(): tokenBudget, walkDepth, relatedLimit, breadthLimit, useCrossEncoder
    iteration,   \* run(): the loop counter
    pc,          \* run(): the stage it is awaiting
    trace,       \* run(): the entries of its LangGraphTrace
    components,  \* run(): what buildComponents returned in this iteration
    context,     \* run(): the last context built
    resolution,  \* run(): the last target resolution
    evaluation,  \* run(): the last evaluation decision
    actionsTaken,\* run(): every action of every decision so far
    outcome,     \* how the promise run() returned stands: running, returned, rejected
    result,      \* what run() resolved with
    agentConfig, \* EvaluationAgent.config
    sample,      \* the EvaluationSample handed to evaluate
    decision,    \* what evaluate returned
    request,     \* the arguments of a buildContextForChange call, and what its searches find
    retrGraph,   \* the CodeGraph the DependencyAwareRetriever was built over
    dependencyContext,   \* what buildContextForChange returned or threw
    annIndex,    \* HnswAnnIndex: nodes, vectorDimension, entryPoint, maxLevel
    maxConnections,      \* HnswAnnIndex.maxConnections, set by the constructor
    annCall,     \* the last call on the index and how it ended
    annSteps,    \* the add, remove and reset calls made so far
    memGraph,    \* InMemoryGraphStore.graph: the saved CodeGraph, if any
    held,        \* the CodeGraph objects a client holds: its own and the one load() gave it
    nodeObjects, \* the GraphNode objects alive, by reference: their mutable fields
    savedContent,\* the content of the graph handed to the last save(), as it was then
    memCall,     \* the last call on the store or on a held graph
    memSteps,    \* the calls made so far
    sources,     \* GraphBuilder: the content of each source file findSourceFiles lists
    buildResult, \* how the last GraphBuilder.build() ended, and the content it read
    writes,      \* the source files written so far
    requestedTokens, \* the maxTokens argument of a buildContextForChange call, as a JavaScript number
    clampedBudget, \* what clampTokenBudget made of it: the budget of the packing and of telemetry
    documents,   \* Bm25Index.documents: the indexed documents in Map insertion order
    documentFrequency, \* Bm25Index.documentFrequency: term -> number of documents, 0 for no entry
    totalDocumentLength, \* Bm25Index.totalDocumentLength
    latestText,  \* the text last handed to addDocument for each id still indexed
    bmCall,      \* the last call on the Bm25Index and what it returned
    bmSteps,     \* the calls made on the Bm25Index so far
    records,     \* EmbeddingCache.records: hash -> CacheRecord
    cacheDirty,  \* EmbeddingCache.dirty
    loaded,      \* EmbeddingCache.loaded
    cacheFile,   \* cache.json of the project root: whether it exists, and the records written
    flushCalls,  \* the flush() calls that are awaiting ensureDir or writeJsonFile
    prepareCall, \* whether a prepare() call is awaiting readJsonFile
    lastSet,     \* the embedding of the last set() of each text since the last clear()
    settled,     \* the texts whose last set() was followed by a flush() call that has completed
    cacheSteps   \* the calls made on the cache so far

graphVars == <<cg, lastCall>>
overlayVars == <<base, ops, applied>>
mgrVars == <<tree, store, heap, baseGraph, overlay, overlayCache, overlayCacheDirty,
             overlayModifiedPaths, hookLog, nextOverlayId, mgrCall, returned>>
pipeVars == <<config, state, iteration, pc, trace, components, context, resolution,
              evaluation, actionsTaken, outcome, result>>
evalVars == <<agentConfig, sample, decision>>
retrVars == <<request, retrGraph, dependencyContext>>
annVars == <<annIndex, annCall, annSteps>>
memVars == <<memGraph, held, nodeObjects, savedContent, memCall, memSteps>>
cacheVars == <<records, cacheDirty, loaded, cacheFile, flushCalls, prepareCall, lastSet, settled, cacheSteps>>
bm25Vars == <<documents, documentFrequency, totalDocumentLength, latestText, bmCall, bmSteps>>
budgetVars == <<requestedTokens, clampedBudget>>
buildVars == <<sources, buildResult, writes>>
notGraph == <<overlayVars, mgrVars, pipeVars, evalVars, retrVars, annVars, maxConnections, memVars, buildVars, budgetVars, bm25Vars, cacheVars>>
notOverlay == <<graphVars, mgrVars, pipeVars, evalVars, retrVars, annVars, maxConnections, memVars, buildVars, budgetVars, bm25Vars, cacheVars>>
notMgr == <<graphVars, overlayVars, pipeVars, evalVars, retrVars, annVars, maxConnections, memVars, buildVars, budgetVars, bm25Vars, cacheVars>>
notPipe == <<graphVars, overlayVars, mgrVars, evalVars, retrVars, annVars, maxConnections, memVars, buildVars, budgetVars, bm25Vars, cacheVars>>
notEval == <<graphVars, overlayVars, mgrVars, pipeVars, retrVars, annVars, maxConnections, memVars, buildVars, budgetVars, bm25Vars, cacheVars>>
notRetr == <<graphVars, overlayVars, mgrVars, pipeVars, evalVars, annVars, maxConnections, memVars, buildVars, budgetVars, bm25Vars, cacheVars>>
notAnn == <<graphVars, overlayVars, mgrVars, pipeVars, evalVars, retrVars, memVars, buildVars, budgetVars, bm25Vars, cacheVars>>
notMem == <<graphVars, overlayVars, mgrVars, pipeVars, evalVars, retrVars, annVars, maxConnections, buildVars, budgetVars, bm25Vars, cacheVars>>
notCache == <<graphVars, overlayVars, mgrVars, pipeVars, evalVars, retrVars, annVars, maxConnections, buildVars, budgetVars, bm25Vars, memVars>>
notBm25 == <<graphVars, overlayVars, mgrVars, pipeVars, evalVars, retrVars, annVars, maxConnections, buildVars, budgetVars, memVars, cacheVars>>
notBudget == <<graphVars, overlayVars, mgrVars, pipeVars, evalVars, retrVars, annVars, maxConnections, buildVars, memVars, bm25Vars, cacheVars>>
notBuild == <<graphVars, overlayVars, mgrVars, pipeVars, evalVars, retrVars, annVars, maxConnections, memVars, budgetVars, bm25Vars, cacheVars>>
vars == <<cg, lastCall, base, ops, applied, tree, store, heap, baseGraph, overlay,
          overlayCache, overlayCacheDirty, overlayModifiedPaths, hookLog, nextOverlayId,
          mgrCall, returned, config, state, iteration, pc, trace, components, context,
          resolution, evaluation, actionsTaken, outcome, result, agentConfig, sample,
          decision, request, retrGraph, dependencyContext, annIndex, maxConnections,
          annCall, annSteps, memGraph, held, nodeObjects, savedContent, memCall, memSteps,
          sources, buildResult, writes,
          requestedTokens, clampedBudget,
          documents, documentFrequency, totalDocumentLength, latestText, bmCall, bmSteps,
          records, cacheDirty, loaded, cacheFile, flushCalls, prepareCall, lastSet, settled, cacheSteps>>

(***************************************************************************)
(* Bounds and universes                                                    *)
(***************************************************************************)
MaxOps == 2
MaxHooks == 4
MaxIterations == 2
MaxCandidates == 2

NodeIds == {"n1", "n2", "n3"}
Paths == {"a", "b"}
EdgeIds == {"e1", "e2"}
NodePool == [id : NodeIds, path : Paths]
EdgePool == [id : EdgeIds, from : NodeIds, to : NodeIds]

OvNodeIds == {"n1", "n2"}
OvNodePool == [id : OvNodeIds, path : Paths]
OvEdgePool == [id : {"e1"}, from : OvNodeIds, to : OvNodeIds]

(***************************************************************************)
(* Maps (JavaScript Map): functions whose domain is the set of keys        *)
(***************************************************************************)
EmptyMap == [x \in {} |-> x]
Has(m, k) == k \in DOMAIN m
MapSet(m, k, v) == [x \in (DOMAIN m) \cup {k} |-> IF x = k THEN v ELSE m[x]]
MapDelete(m, k) == [x \in (DOMAIN m) \ {k} |-> m[x]]
MapDeleteAll(m, ks) == [x \in (DOMAIN m) \ ks |-> m[x]]

(***************************************************************************)
(* CodeGraph                                                               *)
(***************************************************************************)
EmptyGraph ==
    [nodes |-> EmptyMap, edges |-> EmptyMap,
     nodesByPath |-> EmptyMap, edgesByNode |-> EmptyMap]

indexNodePath(byPath, node) ==
    LET keyed == IF Has(byPath, node.path) THEN byPath
                 ELSE MapSet(byPath, node.path, {})
    IN  MapSet(keyed, node.path, keyed[node.path] \cup {node.id})

indexEdge(byNode, edge) ==
    LET keyed == IF Has(byNode, edge.from) THEN byNode
                 ELSE MapSet(byNode, edge.from, {})
    IN  MapSet(keyed, edge.from, keyed[edge.from] \cup {edge.id})

unindexNodePathKeepsId(byPath, path, id) == byPath

\* pathSet?.delete(id); if (pathSet && pathSet.size === 0) nodesByPath.delete(path)
unindexNodePath(byPath, path, id) ==
    IF ~Has(byPath, path) THEN byPath
    ELSE LET rest == byPath[path] \ {id}
         IN  IF rest = {} THEN MapDelete(byPath, path)
             ELSE MapSet(byPath, path, rest)

upsertNode(g, node) ==
    LET cleared == IF Has(g.nodes, node.id)
                   THEN unindexNodePath(g.nodesByPath, g.nodes[node.id].path, node.id)
                   ELSE g.nodesByPath
    IN  [g EXCEPT !.nodes = MapSet(g.nodes, node.id, node),
                  !.nodesByPath = indexNodePath(cleared, node)]

upsertEdgeThrowsNever(g, edge) == FALSE

upsertEdgeThrows(g, edge) == ~Has(g.nodes, edge.from) \/ ~Has(g.nodes, edge.to)

upsertEdge(g, edge) ==
    IF upsertEdgeThrows(g, edge) THEN g
    ELSE LET cleared ==
                 IF Has(g.edges, edge.id) /\ Has(g.edgesByNode, g.edges[edge.id].from)
                 THEN MapSet(g.edgesByNode, g.edges[edge.id].from,
                             g.edgesByNode[g.edges[edge.id].from] \ {edge.id})
                 ELSE g.edgesByNode
         IN  [g EXCEPT !.edges = MapSet(g.edges, edge.id, edge),
                       !.edgesByNode = indexEdge(cleared, edge)]

removeNodeKeepIncoming(g, nodeId) ==
    IF ~Has(g.nodes, nodeId) THEN g
    ELSE LET outgoing == IF Has(g.edgesByNode, nodeId) THEN g.edgesByNode[nodeId] ELSE {}
         IN  [nodes |-> MapDelete(g.nodes, nodeId),
              edges |-> MapDeleteAll(g.edges, outgoing),
              nodesByPath |-> unindexNodePath(g.nodesByPath, g.nodes[nodeId].path, nodeId),
              edgesByNode |-> MapDelete(g.edgesByNode, nodeId)]

removeNode(g, nodeId) ==
    IF ~Has(g.nodes, nodeId) THEN g
    ELSE LET outgoing == IF Has(g.edgesByNode, nodeId) THEN g.edgesByNode[nodeId] ELSE {}
             edges1 == MapDeleteAll(g.edges, outgoing)
             byNode1 == MapDelete(g.edgesByNode, nodeId)
             incoming == {e \in DOMAIN edges1 : edges1[e].to = nodeId}
         IN  [nodes |-> MapDelete(g.nodes, nodeId),
              edges |-> MapDeleteAll(edges1, incoming),
              nodesByPath |-> unindexNodePath(g.nodesByPath, g.nodes[nodeId].path, nodeId),
              edgesByNode |-> [n \in DOMAIN byNode1 |->
                                 byNode1[n] \ {e \in incoming : edges1[e].from = n}]]

RECURSIVE removeEach(_, _)
removeEach(g, ids) ==
    IF ids = {} THEN g
    ELSE LET id == CHOOSE x \in ids : TRUE
         IN  removeEach(removeNode(g, id), ids \ {id})

removeNodesByPath(g, path) ==
    IF ~Has(g.nodesByPath, path) THEN g
    ELSE removeEach(g, g.nodesByPath[path])

\* fromJSON: the graph holding exactly these node and edge records
fromJSON(nodeSet, edgeSet) ==
    [nodes |-> [i \in {n.id : n \in nodeSet} |-> CHOOSE n \in nodeSet : n.id = i],
     edges |-> [i \in {e.id : e \in edgeSet} |-> CHOOSE e \in edgeSet : e.id = i],
     nodesByPath |-> [p \in {n.path : n \in nodeSet} |->
                        {n.id : n \in {m \in nodeSet : m.path = p}}],
     edgesByNode |-> [f \in {e.from : e \in edgeSet} |->
                        {e.id : e \in {d \in edgeSet : d.from = f}}]]

getAllEdges(g) == {g.edges[e] : e \in DOMAIN g.edges}
getAllNodes(g) == {g.nodes[n] : n \in DOMAIN g.nodes}

EdgeIntegrity(g) ==
    \A e \in getAllEdges(g) : Has(g.nodes, e.from) /\ Has(g.nodes, e.to)

(***************************************************************************)
(* CodeGraph calls                                                         *)
(***************************************************************************)
Called(op, arg, threw) == [op |-> op, arg |-> arg, threw |-> threw]

\* addNode without an id draws a fresh one (randomUUID)
AddNode ==
    \E n \in NodePool :
        /\ ~Has(cg.nodes, n.id)
        /\ cg' = upsertNode(cg, n)
        /\ lastCall' = Called("addNode", n.id, FALSE)
        /\ UNCHANGED notGraph

UpsertNode ==
    \E n \in NodePool :
        /\ cg' = upsertNode(cg, n)
        /\ lastCall' = Called("upsertNode", n.id, FALSE)
        /\ UNCHANGED notGraph

\* addEdge without an id draws a fresh one (randomUUID)
AddEdge ==
    \E e \in EdgePool :
        /\ ~Has(cg.edges, e.id)
        /\ cg' = upsertEdge(cg, e)
        /\ lastCall' = Called("addEdge", e.id, upsertEdgeThrows(cg, e))
        /\ UNCHANGED notGraph

UpsertEdge ==
    \E e \in EdgePool :
        /\ cg' = upsertEdge(cg, e)
        /\ lastCall' = Called("upsertEdge", e.id, upsertEdgeThrows(cg, e))
        /\ UNCHANGED notGraph

RemoveNode ==
    \E id \in NodeIds :
        /\ cg' = removeNode(cg, id)
        /\ lastCall' = Called("removeNode", id, FALSE)
        /\ UNCHANGED notGraph

RemoveNodesByPath ==
    \E p \in Paths :
        /\ cg' = removeNodesByPath(cg, p)
        /\ lastCall' = Called("removeNodesByPath", p, FALSE)
        /\ UNCHANGED notGraph

GraphIdle == cg = EmptyGraph /\ lastCall = Called("new", "", FALSE)

(***************************************************************************)
(* DiffOverlay                                                             *)
(***************************************************************************)
NoNode == [id |-> "", path |-> ""]
NoEdge == [id |-> "", from |-> "", to |-> ""]

\* A DiffOperation; an absent optional field is "" (ids) or hasNode/hasEdge FALSE
\* path is metadata.path
NodeOp(type, node, path) ==
    [type |-> type, nodeId |-> "", edgeId |-> "", hasNode |-> TRUE, node |-> node,
     hasEdge |-> FALSE, edge |-> NoEdge, path |-> path]
EdgeOp(type, edge, path) ==
    [type |-> type, nodeId |-> "", edgeId |-> "", hasNode |-> FALSE, node |-> NoNode,
     hasEdge |-> TRUE, edge |-> edge, path |-> path]
RemoveNodeOp(id, path) ==
    [type |-> "remove", nodeId |-> id, edgeId |-> "", hasNode |-> FALSE, node |-> NoNode,
     hasEdge |-> FALSE, edge |-> NoEdge, path |-> path]
RemoveEdgeOp(id, path) ==
    [type |-> "remove", nodeId |-> "", edgeId |-> id, hasNode |-> FALSE, node |-> NoNode,
     hasEdge |-> FALSE, edge |-> NoEdge, path |-> path]

OpPool ==
    {NodeOp("add", n, "") : n \in OvNodePool}
    \cup {NodeOp("modify", n, "") : n \in OvNodePool}
    \cup {EdgeOp("add", e, "") : e \in OvEdgePool}
    \cup {RemoveNodeOp(id, "") : id \in OvNodeIds} \cup {RemoveEdgeOp("e1", "")}

\* clone(): new Maps and new index Sets holding the same entries; a graph is a value
\* here, and an entry that stands for a node object carries the object's reference
clone(g) == g

RECURSIVE applyFrom(_, _, _)
applyFrom(operations, i, g) ==
    IF i > Len(operations) THEN [threw |-> FALSE, graph |-> g]
    ELSE LET op == operations[i] IN
         CASE op.type = "add" /\ op.hasNode ->
                  applyFrom(operations, i + 1, upsertNode(g, op.node))
           [] op.type = "add" /\ ~op.hasNode /\ op.hasEdge ->
                  IF upsertEdgeThrows(g, op.edge) THEN [threw |-> TRUE, graph |-> g]
                  ELSE applyFrom(operations, i + 1, upsertEdge(g, op.edge))
           [] op.type = "remove" /\ op.nodeId # "" ->
                  applyFrom(operations, i + 1, removeNode(g, op.nodeId))
           [] op.type = "modify" /\ op.hasNode ->
                  applyFrom(operations, i + 1, upsertNode(g, op.node))
           [] OTHER -> applyFrom(operations, i + 1, g)

apply(operations, graph) == applyFrom(operations, 1, clone(graph))

NotApplied == [status |-> "none", graph |-> EmptyGraph, n |-> 0]

\* the graphs the overlay is applied to: every well-formed graph over the small pools
OverlayBases ==
    {fromJSON(N, E) :
        <<N, E>> \in {ne \in (SUBSET OvNodePool) \X (SUBSET OvEdgePool) :
                        /\ \A x, y \in ne[1] : x.id = y.id => x = y
                        /\ \A x, y \in ne[2] : x.id = y.id => x = y
                        /\ \A e \in ne[2] : \E x, y \in ne[1] : x.id = e.from /\ y.id = e.to}}

AddOperation ==
    /\ Len(ops) < MaxOps
    /\ \E op \in OpPool : ops' = Append(ops, op)
    /\ UNCHANGED <<base, applied, notOverlay>>

Apply ==
    /\ LET r == apply(ops, base)
       IN  applied' = [status |-> IF r.threw THEN "threw" ELSE "ok",
                       graph |-> IF r.threw THEN EmptyGraph ELSE r.graph,
                       n |-> Len(ops)]
    /\ UNCHANGED <<base, ops, notOverlay>>

OverlayIdle == base = EmptyGraph /\ ops = <<>> /\ applied = NotApplied

(***************************************************************************)
(* GraphBuilder over a small source tree: a.ts holds one function that     *)
(* calls the function of b.ts; c.md is a file no language parses.  A new   *)
(* content version moves the function, which changes its node id.          *)
(***************************************************************************)
SourceFiles == <<"a", "b">>
MgrPaths == {"a", "b", "c"}
Versions == {1, 2}
\* the file the user keeps editing
EditedFiles == {"b"}

createFileNodeId(filePath) == "file:" \o filePath
createSymbolNodeId(filePath, version) == "fn:" \o filePath \o ":" \o ToString(version)
createPlaceholderSymbolId(filePath, symbolName) ==
    "placeholder:" \o filePath \o "#" \o symbolName
createSymbolKey(filePath, symbolName) == filePath \o "#" \o symbolName
createEdgeId(from, to, type) == "edge:" \o from \o ">" \o to \o ":" \o type

GraphEdge(from, to, type, targetFilePath, symbol) ==
    [id |-> createEdgeId(from, to, type), from |-> from, to |-> to, type |-> type,
     targetFilePath |-> targetFilePath, symbol |-> symbol]

NullSnapshot == [isNull |-> TRUE, filePath |-> "", symbols |-> <<>>, edges |-> <<>>]

parseFile(files, filePath) ==
    IF filePath \notin DOMAIN files THEN NullSnapshot
    ELSE LET fileNode == [id |-> createFileNodeId(filePath), path |-> filePath,
                          type |-> "file", name |-> filePath]
             fn == [id |-> createSymbolNodeId(filePath, files[filePath]), path |-> filePath,
                    type |-> "function", name |-> "fn"]
             containsEdges == <<GraphEdge(fileNode.id, fn.id, "contains", "", "")>>
             importEdges ==
                 IF filePath = "a"
                 THEN <<GraphEdge(fn.id, createPlaceholderSymbolId("b", "fn"), "calls",
                                  "b", "fn")>>
                 ELSE <<>>
         IN  [isNull |-> FALSE, filePath |-> filePath, file |-> fileNode,
              symbols |-> <<fn>>, edges |-> containsEdges \o importEdges]

\* buildFileSnapshot is a function of the tree and the path: computed once for each
Trees == [{"a", "b"} -> Versions]
fileSnapshots == [files \in Trees |-> [filePath \in MgrPaths |-> parseFile(files, filePath)]]
buildFileSnapshot(files, filePath) == fileSnapshots[files][filePath]

\* path#name -> node id over the functions and classes of a graph.  Every graph the
\* manager indexes holds at most one such node per key, so Map order plays no part.
buildExportedIndexFromGraph(g) ==
    LET symbols == {n \in getAllNodes(g) : n.type \in {"function", "class"}}
    IN  [k \in {createSymbolKey(n.path, n.name) : n \in symbols} |->
            (CHOOSE n \in symbols : createSymbolKey(n.path, n.name) = k).id]

resolveEdge(g, edge, exportedIndex) ==
    IF ~Has(g.nodes, edge.from) THEN <<>>
    ELSE LET direct == Has(g.nodes, edge.to)
             key == createSymbolKey(edge.targetFilePath, edge.symbol)
             mapped == ~direct /\ edge.targetFilePath # "" /\ edge.symbol # ""
                       /\ Has(exportedIndex, key)
             targetId == IF direct THEN edge.to
                         ELSE IF mapped THEN exportedIndex[key] ELSE ""
         IN  IF targetId = "" \/ ~Has(g.nodes, targetId) THEN <<>>
             ELSE <<[edge EXCEPT !.id = createEdgeId(edge.from, targetId, edge.type),
                                 !.to = targetId]>>

RECURSIVE resolveEdges(_, _, _)
resolveEdges(g, edges, exportedIndex) ==
    IF edges = <<>> THEN <<>>
    ELSE resolveEdge(g, Head(edges), exportedIndex)
             \o resolveEdges(g, Tail(edges), exportedIndex)

RECURSIVE upsertNodes(_, _)
upsertNodes(g, nodes) ==
    IF nodes = <<>> THEN g ELSE upsertNodes(upsertNode(g, Head(nodes)), Tail(nodes))

RECURSIVE upsertEdges(_, _)
upsertEdges(g, edges) ==
    IF edges = <<>> THEN g ELSE upsertEdges(upsertEdge(g, Head(edges)), Tail(edges))

RECURSIVE snapshotNodes(_, _)
snapshotNodes(files, paths) ==
    IF paths = <<>> THEN <<>>
    ELSE LET snapshot == buildFileSnapshot(files, Head(paths))
         IN  (IF snapshot.isNull THEN <<>> ELSE <<snapshot.file>> \o snapshot.symbols)
                 \o snapshotNodes(files, Tail(paths))

RECURSIVE snapshotEdges(_, _)
snapshotEdges(files, paths) ==
    IF paths = <<>> THEN <<>>
    ELSE buildFileSnapshot(files, Head(paths)).edges \o snapshotEdges(files, Tail(paths))

\* GraphBuilder.build(): the graph of the whole tree
buildGraph(files) ==
    LET withNodes == upsertNodes(EmptyGraph, snapshotNodes(files, SourceFiles))
        exportedIndex == buildExportedIndexFromGraph(withNodes)
    IN  upsertEdges(withNodes,
                    resolveEdges(withNodes, snapshotEdges(files, SourceFiles), exportedIndex))

\* build() is a function of the tree alone: computed once per tree
builtGraphs == [files \in Trees |-> buildGraph(files)]
build(files) == builtGraphs[files]

(***************************************************************************)
(* DiffOverlay as the GraphManager uses it                                 *)
(***************************************************************************)
\* clearPath(path): drop the pending operations that touch the path
clearPath(operations, path) ==
    SelectSeq(operations, LAMBDA op : ~(op.path = path \/ (op.hasNode /\ op.node.path = path)))

isEmpty(operations) == Len(operations) = 0

(***************************************************************************)
(* Graph objects: the heap keeps object identity apart from graph content  *)
(***************************************************************************)
Refs == {"g1", "g2", "g3", "g4"}
Null == "null"

newRef(h) == CHOOSE r \in Refs : ~Has(h, r)

cloneAliases(h, ref) == ref

\* clone(): a new CodeGraph object (its content is copied by the caller)
cloneInto(h, ref) == newRef(h)

Object(g, origin) == [g |-> g, origin |-> origin]

\* keep the objects something still refers to
Collect(h, roots) == [r \in (DOMAIN h) \cap roots |-> h[r]]

\* DiffOverlay.apply(baseGraph) on the heap
applyOnHeap(h, operations, baseRef, origin) ==
    LET target == cloneInto(h, baseRef)
        r == apply(operations, h[baseRef].g)
    IN  [threw |-> r.threw, ref |-> target,
         heap |-> MapSet(h, target, Object(r.graph, origin))]

(***************************************************************************)
(* GraphManager                                                            *)
(***************************************************************************)
NoOverlay == [live |-> FALSE, id |-> 0, operations |-> <<>>]
Hook(name, id) == [hook |-> name, id |-> id]
MgrCalled(op, arg, threw) == [op |-> op, arg |-> arg, threw |-> threw]
Returned(ref) == [status |-> "ok", ref |-> ref]
Threw == [status |-> "threw", ref |-> Null]

hasPendingOverlay == overlay.live /\ ~isEmpty(overlay.operations)

\* getNodesByPath in Map order: the builder inserts a file node before its symbols
RECURSIVE inOrder(_)
inOrder(nodes) ==
    IF nodes = {} THEN <<>>
    ELSE LET files == {n \in nodes : n.type = "file"}
             first == IF files # {} THEN CHOOSE n \in files : TRUE
                      ELSE CHOOSE n \in nodes : TRUE
         IN  <<first>> \o inOrder(nodes \ {first})

\* the nodes getNodesByPath collects: the indexed ids that the node table still holds
indexedNodes(g, path) ==
    IF ~Has(g.nodesByPath, path) THEN {}
    ELSE {g.nodes[id] : id \in g.nodesByPath[path] \cap DOMAIN g.nodes}

getNodesByPath(g, path) == inOrder(indexedNodes(g, path))

\* the edges getOutgoingEdges collects, as a set
getOutgoingEdges(g, nodeId) ==
    IF ~Has(g.edgesByNode, nodeId) THEN {}
    ELSE {g.edges[id] : id \in g.edgesByNode[nodeId] \cap DOMAIN g.edges}

getGraphAlwaysRecomputes(h, baseRef, ov, cacheRef, dirty) ==
    IF baseRef = Null
    THEN [result |-> Threw, heap |-> h, overlayCache |-> cacheRef, overlayCacheDirty |-> dirty]
    ELSE IF ~ov.live \/ isEmpty(ov.operations)
    THEN [result |-> Returned(baseRef), heap |-> h, overlayCache |-> cacheRef,
          overlayCacheDirty |-> dirty]
    ELSE LET merged == applyOnHeap(h, ov.operations, baseRef, "merged")
         IN  IF merged.threw
             THEN [result |-> Threw, heap |-> h, overlayCache |-> cacheRef,
                   overlayCacheDirty |-> dirty]
             ELSE [result |-> Returned(merged.ref), heap |-> merged.heap,
                   overlayCache |-> merged.ref, overlayCacheDirty |-> FALSE]

\* getGraph() on a manager state; returns what it hands back and what it memoises
getGraph(h, baseRef, ov, cacheRef, dirty) ==
    IF baseRef = Null
    THEN [result |-> Threw, heap |-> h, overlayCache |-> cacheRef, overlayCacheDirty |-> dirty]
    ELSE IF ~ov.live \/ isEmpty(ov.operations)
    THEN [result |-> Returned(baseRef), heap |-> h, overlayCache |-> cacheRef,
          overlayCacheDirty |-> dirty]
    ELSE IF ~dirty /\ cacheRef # Null
    THEN [result |-> Returned(cacheRef), heap |-> h, overlayCache |-> cacheRef,
          overlayCacheDirty |-> dirty]
    ELSE LET merged == applyOnHeap(h, ov.operations, baseRef, "merged")
         IN  IF merged.threw
             THEN [result |-> Threw, heap |-> h, overlayCache |-> cacheRef,
                   overlayCacheDirty |-> dirty]
             ELSE [result |-> Returned(merged.ref), heap |-> merged.heap,
                   overlayCache |-> merged.ref, overlayCacheDirty |-> FALSE]

\* the operations recordFileModification leaves in the overlay
recordedOperations(baseG, workingG, operations, filePath, snapshot) ==
    LET baseNodes == getNodesByPath(baseG, filePath)
        removes == [i \in 1..Len(baseNodes) |-> RemoveNodeOp(baseNodes[i].id, filePath)]
        resolvedEdges ==
            IF snapshot.isNull THEN <<>>
            ELSE resolveEdges(workingG, snapshot.edges, buildExportedIndexFromGraph(workingG))
        adds ==
            IF snapshot.isNull THEN <<>>
            ELSE <<NodeOp("add", snapshot.file, "")>>
                 \o [i \in 1..Len(snapshot.symbols) |-> NodeOp("add", snapshot.symbols[i], "")]
                 \o [i \in 1..Len(resolvedEdges) |-> EdgeOp("add", resolvedEdges[i], filePath)]
    IN  clearPath(operations, filePath) \o removes \o adds

\* workingGraph: the clone of the base with the file's nodes replaced by the snapshot's
workingGraph(baseG, filePath, snapshot) ==
    upsertNodes(removeNodesByPath(clone(baseG), filePath),
                <<snapshot.file>> \o snapshot.symbols)

Roots(b, c, r) == {b, c, r.ref} \ {Null}

resetOverlayStateKeepsOverlay ==
    /\ overlay' = overlay
    /\ overlayCache' = baseGraph'
    /\ overlayCacheDirty' = FALSE
    /\ overlayModifiedPaths' = {}

resetOverlayState ==
    /\ overlay' = NoOverlay
    /\ overlayCache' = baseGraph'
    /\ overlayCacheDirty' = FALSE
    /\ overlayModifiedPaths' = {}

Initialize(forceRebuild) ==
    /\ IF ~forceRebuild /\ store.has
       THEN LET stored == newRef(heap)
            IN  /\ baseGraph' = stored
                /\ heap' = Collect(MapSet(heap, stored, Object(clone(store.graph), "store")),
                                   {stored})
                /\ store' = store
       ELSE LET built == newRef(heap)
            IN  /\ baseGraph' = built
                /\ heap' = Collect(MapSet(heap, built, Object(build(tree), "build")), {built})
                /\ store' = [has |-> TRUE, graph |-> clone(build(tree))]
    /\ resetOverlayState
    /\ returned' = Returned(baseGraph')
    /\ mgrCall' = MgrCalled("initialize", "", FALSE)
    /\ UNCHANGED <<notMgr, tree, hookLog, nextOverlayId>>

Rebuild ==
    /\ LET rebuilt == newRef(heap)
       IN  /\ baseGraph' = rebuilt
           /\ heap' = Collect(MapSet(heap, rebuilt, Object(build(tree), "build")), {rebuilt})
    /\ store' = [has |-> TRUE, graph |-> clone(build(tree))]
    /\ resetOverlayState
    /\ returned' = Returned(baseGraph')
    /\ mgrCall' = MgrCalled("rebuild", "", FALSE)
    /\ UNCHANGED <<notMgr, tree, hookLog, nextOverlayId>>

GetGraph ==
    /\ LET r == getGraph(heap, baseGraph, overlay, overlayCache, overlayCacheDirty)
       IN  /\ returned' = r.result
           /\ overlayCache' = r.overlayCache
           /\ overlayCacheDirty' = r.overlayCacheDirty
           /\ heap' = Collect(r.heap, Roots(baseGraph, r.overlayCache, r.result))
           /\ mgrCall' = MgrCalled("getGraph", "", r.result.status = "threw")
    /\ UNCHANGED <<notMgr, tree, store, baseGraph, overlay, overlayModifiedPaths, hookLog,
                   nextOverlayId>>

RecordFileModification(filePath) ==
    IF baseGraph = Null
    THEN /\ mgrCall' = MgrCalled("recordFileModification", "", TRUE)
         /\ returned' = Threw
         /\ heap' = Collect(heap, Roots(baseGraph, overlayCache, Threw))
         /\ UNCHANGED <<notMgr, tree, store, baseGraph, overlay, overlayCache, overlayCacheDirty,
                        overlayModifiedPaths, hookLog, nextOverlayId>>
    ELSE LET snapshot == buildFileSnapshot(tree, filePath)
             created == ~overlay.live
             id == IF created THEN nextOverlayId + 1 ELSE overlay.id
             prior == IF created THEN <<>> ELSE overlay.operations
             working == cloneInto(heap, baseGraph)
             heap1 == IF snapshot.isNull THEN heap
                      ELSE MapSet(heap, working,
                                  Object(workingGraph(heap[baseGraph].g, filePath, snapshot),
                                         "working"))
             recorded == [live |-> TRUE, id |-> id,
                          operations |->
                              recordedOperations(heap1[baseGraph].g,
                                  IF snapshot.isNull THEN EmptyGraph ELSE heap1[working].g,
                                  prior, filePath, snapshot)]
             heap2 == Collect(heap1, Roots(baseGraph, Null, returned))
             r == getGraph(heap2, baseGraph, recorded, Null, TRUE)
         IN  /\ Len(hookLog) + (IF created THEN 2 ELSE 1) <= MaxHooks
             /\ overlay' = recorded
             /\ nextOverlayId' = IF created THEN id ELSE nextOverlayId
             /\ overlayModifiedPaths' = overlayModifiedPaths \cup {filePath}
             /\ hookLog' = hookLog
                    \o (IF created THEN <<Hook("onOverlayCreated", id)>> ELSE <<>>)
                    \o <<Hook("onOverlayUpdated", id)>>
             /\ returned' = r.result
             /\ overlayCache' = r.overlayCache
             /\ overlayCacheDirty' = r.overlayCacheDirty
             /\ heap' = Collect(r.heap, Roots(baseGraph, r.overlayCache, r.result))
             /\ mgrCall' = MgrCalled("recordFileModification", "",
                                     r.result.status = "threw")
             /\ UNCHANGED <<notMgr, tree, store, baseGraph>>

MergeOverlay ==
    IF baseGraph = Null
    THEN /\ mgrCall' = MgrCalled("mergeOverlay", "", TRUE)
         /\ returned' = Threw
         /\ heap' = Collect(heap, Roots(baseGraph, overlayCache, Threw))
         /\ UNCHANGED <<notMgr, tree, store, baseGraph, overlay, overlayCache, overlayCacheDirty,
                        overlayModifiedPaths, hookLog, nextOverlayId>>
    ELSE IF ~overlay.live \/ isEmpty(overlay.operations)
    THEN /\ mgrCall' = MgrCalled("mergeOverlay", "", FALSE)
         /\ returned' = Returned(baseGraph)
         /\ heap' = Collect(heap, Roots(baseGraph, overlayCache, Returned(baseGraph)))
         /\ UNCHANGED <<notMgr, tree, store, baseGraph, overlay, overlayCache, overlayCacheDirty,
                        overlayModifiedPaths, hookLog, nextOverlayId>>
    ELSE LET rebuilt == newRef(heap)
         IN  /\ Len(hookLog) + 1 <= MaxHooks
             /\ baseGraph' = rebuilt
             /\ heap' = Collect(MapSet(heap, rebuilt, Object(build(tree), "build")), {rebuilt})
             /\ store' = [has |-> TRUE, graph |-> clone(build(tree))]
             /\ hookLog' = Append(hookLog, Hook("onOverlayCommitted", overlay.id))
             /\ resetOverlayState
             /\ returned' = Returned(rebuilt)
             /\ mgrCall' = MgrCalled("mergeOverlay", "commit", FALSE)
             /\ UNCHANGED <<notMgr, tree, nextOverlayId>>

DiscardOverlay ==
    /\ overlay.live => Len(hookLog) + 1 <= MaxHooks
    /\ hookLog' = IF overlay.live
                  THEN Append(hookLog, Hook("onOverlayDiscarded", overlay.id))
                  ELSE hookLog
    /\ baseGraph' = baseGraph
    /\ resetOverlayState
    /\ returned' = IF baseGraph = Null THEN Threw ELSE Returned(baseGraph)
    /\ heap' = Collect(heap, {baseGraph})
    /\ mgrCall' = MgrCalled("discardOverlay", "", baseGraph = Null)
    /\ UNCHANGED <<notMgr, tree, store, nextOverlayId>>

ClearStore ==
    /\ overlay.live => Len(hookLog) + 1 <= MaxHooks
    /\ store' = [has |-> FALSE, graph |-> EmptyGraph]
    /\ baseGraph' = Null
    /\ hookLog' = IF overlay.live
                  THEN Append(hookLog, Hook("onOverlayDiscarded", overlay.id))
                  ELSE hookLog
    /\ resetOverlayState
    /\ returned' = [status |-> "none", ref |-> Null]
    /\ heap' = EmptyMap
    /\ mgrCall' = MgrCalled("clearStore", "", FALSE)
    /\ UNCHANGED <<notMgr, tree, nextOverlayId>>

\* a client applies the pending overlay to the base itself: overlay.apply(getBaseGraph())
ApplyPending ==
    /\ baseGraph # Null
    /\ overlay.live
    /\ LET r == applyOnHeap(heap, overlay.operations, baseGraph, "apply")
           handed == IF r.threw THEN Threw ELSE Returned(r.ref)
       IN  /\ returned' = handed
           /\ heap' = Collect(IF r.threw THEN heap ELSE r.heap,
                              Roots(baseGraph, overlayCache, handed))
           /\ mgrCall' = MgrCalled("apply", "", r.threw)
    /\ UNCHANGED <<notMgr, tree, store, baseGraph, overlay, overlayCache, overlayCacheDirty,
                   overlayModifiedPaths, hookLog, nextOverlayId>>

\* the client then changes the graph apply handed back
MutateApplied ==
    /\ mgrCall.op = "apply"
    /\ returned.status = "ok"
    /\ heap' = [heap EXCEPT ![returned.ref].g = removeNodesByPath(@, "b")]
    /\ mgrCall' = MgrCalled("mutate", "", FALSE)
    /\ UNCHANGED <<notMgr, tree, store, baseGraph, overlay, overlayCache, overlayCacheDirty,
                   overlayModifiedPaths, hookLog, nextOverlayId, returned>>

\* the user edits a source file
EditSource ==
    /\ \E f \in EditedFiles, v \in Versions :
           /\ v # tree[f]
           /\ tree' = [tree EXCEPT ![f] = v]
    /\ UNCHANGED <<notMgr, store, heap, baseGraph, overlay, overlayCache, overlayCacheDirty,
                   overlayModifiedPaths, hookLog, nextOverlayId, mgrCall, returned>>

MgrIdle ==
    /\ tree \in Trees
    /\ \A f \in DOMAIN tree : tree[f] = 1
    /\ store = [has |-> FALSE, graph |-> EmptyGraph]
    /\ heap = EmptyMap
    /\ baseGraph = Null
    /\ overlay = NoOverlay
    /\ overlayCache = Null
    /\ overlayCacheDirty = FALSE
    /\ overlayModifiedPaths = {}
    /\ hookLog = <<>>
    /\ nextOverlayId = 0
    /\ mgrCall = MgrCalled("new", "", FALSE)
    /\ returned = [status |-> "none", ref |-> Null]

(***************************************************************************)
(* LangGraphTrace and LangGraphPipeline.run.  The dependencies of the      *)
(* pipeline are interfaces: each stage call ends as it likes (a value,     *)
(* null, or an error) and the evaluation agent decides as it likes.        *)
(***************************************************************************)
TokenBudgetCap == 12000

DefaultConfig ==
    [initialTokenBudget |-> 6000, tokenBudgetStep |-> 2000,
     initialWalkDepth |-> 2, walkDepthStep |-> 1, maxWalkDepth |-> 5,
     initialRelatedLimit |-> 5, relatedLimitStep |-> 2,
     initialBreadthLimit |-> 3, maxBreadthLimit |-> 6,
     maxIterations |-> 2, seedLimit |-> 5]

\* the configurations a caller passes: the defaults with some fields given
PipelineConfigs ==
    {[DefaultConfig EXCEPT !.maxIterations = m, !.initialTokenBudget = t,
                           !.initialWalkDepth = w] :
        m \in 0..MaxIterations, t \in {6000, 11000, 14000}, w \in {2, 4}}

Outcomes == {"ok", "null", "throws"}

EvaluationActions ==
    {"increase_token_budget", "increase_walk_depth", "expand_related", "enable_cross_encoder"}

\* the action lists an evaluation agent hands back; "rerank" is one the pipeline ignores
ActionLists ==
    {<<>>,
     <<"increase_token_budget">>,
     <<"increase_walk_depth", "expand_related">>,
     <<"enable_cross_encoder", "increase_walk_depth", "expand_related">>,
     <<"enable_cross_encoder", "increase_walk_depth", "expand_related",
       "increase_token_budget">>,
     <<"rerank">>}

NullValue == [isNull |-> TRUE, iteration |-> 0]
ValueOf(i) == [isNull |-> FALSE, iteration |-> i]
NullDecision == [isNull |-> TRUE, pass |-> FALSE, actions |-> <<>>]
Decision(pass, actions) == [isNull |-> FALSE, pass |-> pass, actions |-> actions]
Decisions == {Decision(pass, actions) : pass \in BOOLEAN, actions \in ActionLists}

InitialState(cfg) ==
    [tokenBudget |-> cfg.initialTokenBudget, walkDepth |-> cfg.initialWalkDepth,
     relatedLimit |-> cfg.initialRelatedLimit, breadthLimit |-> cfg.initialBreadthLimit,
     useCrossEncoder |-> FALSE]

Min(a, b) == IF a < b THEN a ELSE b
Max(a, b) == IF a > b THEN a ELSE b

applyAction(st, cfg, action) ==
    CASE action = "increase_token_budget" ->
             [st EXCEPT !.tokenBudget = Min(TokenBudgetCap, @ + cfg.tokenBudgetStep)]
      [] action = "increase_walk_depth" ->
             [st EXCEPT !.walkDepth = Min(cfg.maxWalkDepth, @ + cfg.walkDepthStep)]
      [] action = "expand_related" ->
             [st EXCEPT !.relatedLimit = @ + cfg.relatedLimitStep,
                        !.breadthLimit = Min(cfg.maxBreadthLimit, @ + 1)]
      [] action = "enable_cross_encoder" ->
             [st EXCEPT !.useCrossEncoder = TRUE]
      [] OTHER -> st

RECURSIVE applyActionsFrom(_, _, _, _)
applyActionsFrom(st, cfg, actions, i) ==
    IF i > Len(actions) THEN st
    ELSE applyActionsFrom(applyAction(st, cfg, actions[i]), cfg, actions, i + 1)

applyActions(st, cfg, actions) == applyActionsFrom(st, cfg, actions, 1)

\* the stages whose metadata closure reads a field of the result
MetadataReads == {"graph.load", "target.resolve", "context.build", "agent.evaluate"}

stageFailsOnlyOnThrow(node, out) == out = "throws"

\* trace.record's catch is entered: fn threw, or the metadata closure read a field of null
stageFails(node, out) == out = "throws" \/ (out = "null" /\ node \in MetadataReads)

Entry(node, status, error) == [node |-> node, status |-> status, error |-> error]

record(entries, node, failed) ==
    Append(entries, IF failed THEN Entry(node, "error", "message of " \o node)
                    ELSE Entry(node, "ok", ""))

loopContinuesInclusive(iter, maxIterations) == iter <= maxIterations

loopContinues(iter, maxIterations) == iter < maxIterations

NoResult == [returned |-> FALSE]

\* trace.record rethrew and nothing in run() catches: the promise rejects
Rejects ==
    /\ pc' = "done"
    /\ outcome' = "rejected"
    /\ result' = NoResult

\* the return statement of run()
Returns(ctx, res, ev, iter, entries, taken) ==
    /\ pc' = "done"
    /\ outcome' = "returned"
    /\ result' = [returned |-> TRUE, context |-> ctx, resolution |-> res,
                  evaluation |-> ev, iterations |-> iter, trace |-> entries,
                  actionsTaken |-> taken]

\* the head of the while loop, entered with the values run() holds at that point
LoopHead(ctx, res, ev, iter, entries, taken) ==
    IF loopContinues(iter, config.maxIterations)
    THEN /\ iteration' = iter + 1
         /\ pc' = "components.build"
         /\ outcome' = "running"
         /\ result' = NoResult
    ELSE /\ iteration' = iter
         /\ Returns(ctx, res, ev, iter, entries, taken)

GraphLoad ==
    /\ pc = "graph.load"
    /\ \E out \in Outcomes :
           LET failed == stageFails("graph.load", out)
           IN  /\ trace' = record(trace, "graph.load", failed)
               /\ IF failed THEN Rejects /\ iteration' = iteration
                  ELSE LoopHead(context, resolution, evaluation, 0, trace', actionsTaken)
    /\ UNCHANGED <<notPipe, config, state, components, context, resolution, evaluation,
                   actionsTaken>>

ComponentsBuild ==
    /\ pc = "components.build"
    /\ \E out \in Outcomes :
           LET failed == stageFails("components.build", out)
           IN  /\ trace' = record(trace, "components.build", failed)
               /\ IF failed THEN Rejects /\ components' = components
                  ELSE /\ components' = out
                       /\ pc' = "retriever.initialize"
                       /\ UNCHANGED <<outcome, result>>
    /\ UNCHANGED <<notPipe, config, state, iteration, context, resolution, evaluation,
                   actionsTaken>>

RetrieverInitialize ==
    /\ pc = "retriever.initialize"
    /\ \E out \in Outcomes :
           LET failed == components = "null" \/ stageFails("retriever.initialize", out)
           IN  /\ trace' = record(trace, "retriever.initialize", failed)
               /\ IF failed THEN Rejects
                  ELSE pc' = "target.resolve" /\ UNCHANGED <<outcome, result>>
    /\ UNCHANGED <<notPipe, config, state, iteration, components, context, resolution,
                   evaluation, actionsTaken>>

TargetResolve ==
    /\ pc = "target.resolve"
    /\ \E out \in Outcomes :
           LET failed == stageFails("target.resolve", out)
               resolved == IF out = "null" THEN NullValue ELSE ValueOf(iteration)
           IN  /\ trace' = record(trace, "target.resolve", failed)
               /\ IF failed THEN Rejects /\ resolution' = resolution
                  ELSE /\ resolution' = resolved
                       /\ IF resolved.isNull
                          THEN Returns(context, resolved, evaluation, iteration, trace',
                                       actionsTaken)
                          ELSE pc' = "context.build" /\ UNCHANGED <<outcome, result>>
    /\ UNCHANGED <<notPipe, config, state, iteration, components, context, evaluation,
                   actionsTaken>>

ContextBuild ==
    /\ pc = "context.build"
    /\ \E out \in Outcomes :
           LET failed == stageFails("context.build", out)
               builtContext == IF out = "null" THEN NullValue ELSE ValueOf(iteration)
           IN  /\ trace' = record(trace, "context.build", failed)
               /\ IF failed THEN Rejects /\ context' = context
                  ELSE /\ context' = builtContext
                       /\ IF builtContext.isNull
                          THEN Returns(builtContext, resolution, evaluation, iteration,
                                       trace', actionsTaken)
                          ELSE pc' = "agent.evaluate" /\ UNCHANGED <<outcome, result>>
    /\ UNCHANGED <<notPipe, config, state, iteration, components, resolution, evaluation,
                   actionsTaken>>

AgentEvaluate ==
    /\ pc = "agent.evaluate"
    /\ \E out \in Outcomes, d \in Decisions :
           LET failed == stageFails("agent.evaluate", out)
               returnedDecision == IF out = "null" THEN NullDecision ELSE d
               taken == actionsTaken \o returnedDecision.actions
           IN  /\ out = "throws" => d = Decision(FALSE, <<>>)
               /\ out = "null" => d = Decision(FALSE, <<>>)
               /\ trace' = record(trace, "agent.evaluate", failed)
               /\ IF failed
                  THEN /\ Rejects
                       /\ UNCHANGED <<evaluation, actionsTaken, state, iteration>>
                  ELSE /\ evaluation' = returnedDecision
                       /\ IF returnedDecision.isNull
                          THEN /\ Returns(context, resolution, returnedDecision, iteration,
                                          trace', actionsTaken)
                               /\ UNCHANGED <<actionsTaken, state, iteration>>
                          ELSE /\ actionsTaken' = taken
                               /\ IF returnedDecision.pass
                                     \/ Len(returnedDecision.actions) = 0
                                  THEN /\ Returns(context, resolution, returnedDecision,
                                                  iteration, trace', taken)
                                       /\ UNCHANGED <<state, iteration>>
                                  ELSE /\ state' = applyActions(state, config,
                                                                returnedDecision.actions)
                                       /\ LoopHead(context, resolution, returnedDecision,
                                                   iteration, trace', taken)
    /\ UNCHANGED <<notPipe, config, components, context, resolution>>

\* run() has been called on a pipeline built with the default configuration
PipeIdle ==
    /\ config = DefaultConfig
    /\ state = InitialState(DefaultConfig)
    /\ iteration = 0
    /\ pc = "graph.load"
    /\ trace = <<>>
    /\ components = "none"
    /\ context = NullValue
    /\ resolution = NullValue
    /\ evaluation = NullDecision
    /\ actionsTaken = <<>>
    /\ outcome = "running"
    /\ result = NoResult

(***************************************************************************)
(* EvaluationAgent.evaluate.  Thresholds and metrics are rationals kept as *)
(* num/den, compared by cross-multiplication: the quotients of the small   *)
(* integers here are further apart than a double's rounding.               *)
(***************************************************************************)
Ratio(num, den) == [num |-> num, den |-> den]
Less(a, b) == a.num * b.den < b.num * a.den
AtLeast(a, b) == ~Less(a, b)
MinRatio(a, b) == IF Less(a, b) THEN a ELSE b

EvalPaths == {"a", "b"}
RawPaths == {"a", " a", "b"}
trim(path) == IF path = " a" THEN "a" ELSE path

RECURSIVE SeqsUpTo(_, _)
SeqsUpTo(S, n) ==
    IF n = 0 THEN {<<>>}
    ELSE LET shorter == SeqsUpTo(S, n - 1)
         IN  shorter \cup {Append(q, x) : q \in {t \in shorter : Len(t) = n - 1}, x \in S}

Thresholds == {Ratio(3, 10), Ratio(1, 2), Ratio(1, 1)}

AgentConfigs ==
    [precisionThreshold : Thresholds, recallThreshold : {Ratio(1, 2), Ratio(1, 1)},
     hasMaxK : BOOLEAN, maxK : {-1, 0, 1, 3},
     hasCoverageThreshold : BOOLEAN, coverageThreshold : {Ratio(1, 2)}]

TokenUses == {[used |-> 0, budget |-> 0], [used |-> 5, budget |-> 10],
              [used |-> 9, budget |-> 10]}

Samples ==
    [candidates : SeqsUpTo(EvalPaths, MaxCandidates), relevantPaths : SUBSET RawPaths,
     tokens : TokenUses]

keepAll(actions) == actions

\* Array.from(new Set(actions)): the first occurrence of each action, in order
dedupe(actions) ==
    LET firsts == {i \in 1..Len(actions) : \A j \in 1..(i - 1) : actions[j] # actions[i]}
        F[i \in 0..Len(actions)] ==
            IF i = 0 THEN <<>>
            ELSE IF i \in firsts THEN Append(F[i - 1], actions[i]) ELSE F[i - 1]
    IN  F[Len(actions)]

NoDecision == [done |-> FALSE]

evaluate(cfg, smp) ==
    LET candidates == smp.candidates
        truth == {trim(path) : path \in smp.relevantPaths}
        k == Max(1, Min(IF cfg.hasMaxK THEN cfg.maxK ELSE Len(candidates), Len(candidates)))
        topK == SubSeq(candidates, 1, Min(k, Len(candidates)))
        hits == Cardinality({i \in 1..Len(topK) : topK[i] \in truth})
        precisionAtK == IF k = 0 THEN Ratio(0, 1) ELSE Ratio(hits, k)
        recallAtK == IF Cardinality(truth) = 0 THEN Ratio(1, 1)
                     ELSE Ratio(hits, Cardinality(truth))
        coverage == IF smp.tokens.budget = 0 THEN Ratio(0, 1)
                    ELSE Ratio(smp.tokens.used, smp.tokens.budget)
        a1 == IF Less(precisionAtK, cfg.precisionThreshold)
              THEN <<"enable_cross_encoder", "increase_walk_depth", "expand_related">>
              ELSE <<>>
        a2 == IF Less(precisionAtK, MinRatio(Ratio(2, 5), cfg.precisionThreshold))
              THEN <<"increase_token_budget">> ELSE <<>>
        a3 == IF Less(recallAtK, cfg.recallThreshold)
              THEN <<"increase_walk_depth", "expand_related">> ELSE <<>>
        a4 == IF Less(IF cfg.hasCoverageThreshold THEN cfg.coverageThreshold
                      ELSE Ratio(17, 20), coverage)
              THEN <<"increase_token_budget">> ELSE <<>>
    IN  [done |-> TRUE,
         metrics |-> [precisionAtK |-> precisionAtK, recallAtK |-> recallAtK,
                      coverage |-> coverage, candidateCount |-> Len(candidates)],
         pass |-> AtLeast(precisionAtK, cfg.precisionThreshold)
                     /\ AtLeast(recallAtK, cfg.recallThreshold),
         actions |-> dedupe(a1 \o a2 \o a3 \o a4)]

Evaluate ==
    /\ ~decision.done
    /\ decision' = evaluate(agentConfig, sample)
    /\ UNCHANGED <<notEval, agentConfig, sample>>

EvalIdle ==
    /\ agentConfig = [precisionThreshold |-> Ratio(1, 2), recallThreshold |-> Ratio(1, 2),
                      hasMaxK |-> FALSE, maxK |-> 1,
                      hasCoverageThreshold |-> FALSE, coverageThreshold |-> Ratio(1, 2)]
    /\ sample = [candidates |-> <<>>, relevantPaths |-> {},
                 tokens |-> [used |-> 0, budget |-> 0]]
    /\ decision = NoDecision

(***************************************************************************)
(* DependencyAwareRetriever over a CodeGraph, with its TargetResolver      *)
(***************************************************************************)
MaxWalkDepth == 2
MaxBreadthLimit == 2

\* a GraphNode as the retriever reads it; the content is kept by its length, the only
\* thing the token counter reads, and metadata by the fields exported and category
RetrNode(id, type, path, endLine, exported, contentLength) ==
    [id |-> id, type |-> type, name |-> id, path |-> path, startLine |-> 1,
     endLine |-> endLine, exported |-> exported, contentLength |-> contentLength,
     category |-> "none"]

RetrEdge(from, to, type) == [from |-> from, to |-> to, type |-> type]

\* content lengths of alpha, beta and gamma: short bodies, bodies whose rendering is
\* 3000 tokens, and a body above any budget
SizeProfiles == {<<40, 40, 40>>, <<11950, 11950, 40>>, <<11950, 40, 11950>>,
                 <<48000, 40, 40>>}

\* the graphs the retriever is built over: nodes and edges in insertion order
RetrGraphs ==
    {[nodes |-> <<RetrNode("a.ts", "file", "a.ts", 9, FALSE, 40),
                  RetrNode("alpha", "function", "a.ts", 3, FALSE, sizes[1]),
                  RetrNode("beta", "function", "a.ts", 2, TRUE, sizes[2]),
                  RetrNode("gamma", "function", "b.ts", 5, FALSE, sizes[3]),
                  RetrNode("delta", "class", "src/auth/c.ts", 4, FALSE, 40)>>,
      edges |-> <<RetrEdge("a.ts", "alpha", "contains")>> \o calls \o uses] :
        sizes \in SizeProfiles,
        calls \in {<<>>, <<RetrEdge("gamma", "alpha", "calls")>>,
                   <<RetrEdge("beta", "alpha", "calls"), RetrEdge("gamma", "alpha", "calls")>>},
        uses \in {<<>>, <<RetrEdge("alpha", "delta", "imports")>>,
                  <<RetrEdge("alpha", "delta", "imports"),
                    RetrEdge("delta", "gamma", "references")>>}}

NoRetrGraph == [nodes |-> <<>>, edges |-> <<>>]

\* a query, by what the retriever and the resolver read in its text: its words in
\* lower case, the node types and the action keyword found in it, the file names it
\* spells out and the words of applyIntentBoost it holds
Query(tokens, types, action, files, intents) ==
    [tokens |-> tokens, identifiers |-> {tokens[i] : i \in 1..Len(tokens)},
     types |-> types, action |-> action, files |-> files, intents |-> intents]

Queries ==
    {Query(<<"fix", "alpha">>, {}, TRUE, <<>>, {}),
     Query(<<"secure", "the", "auth", "function">>, {"function"}, FALSE, <<>>, {"auth"})}

\* what ANN search, BM25 search, fusion and the reranker hand to groupByPath: whether
\* either search had a hit, and the reranked node ids with their scores in tenths
Retrievals ==
    {[hits |-> FALSE, reranked |-> <<>>],
     [hits |-> TRUE, reranked |-> <<[id |-> "alpha", score |-> 3]>>],
     [hits |-> TRUE, reranked |-> <<[id |-> "gamma", score |-> 9]>>],
     [hits |-> TRUE, reranked |-> <<[id |-> "gamma", score |-> 9],
                                    [id |-> "alpha", score |-> 3],
                                    [id |-> "delta", score |-> 8]>>]}

\* what getSemanticContext returns: nothing when embeddings are disabled, else up to
\* relatedLimit distinct nodes, which expandGraphContext may draw from any category
SemanticResults == {<<>>, <<"gamma", "beta", "a.ts", "delta">>}

NoPath == "none"
TargetFilePaths == {NoPath, "a.ts", "./a.ts", "b.ts"}
CandidateFilePaths == {<<>>, <<"b.ts">>}
MaxTokens == {[kind |-> "finite", num |-> 100, den |-> 1],
              [kind |-> "finite", num |-> 12000, den |-> 1]}

Requests ==
    [query : Queries, targetFilePath : TargetFilePaths,
     candidateFilePaths : CandidateFilePaths, maxTokens : MaxTokens,
     walkDepth : 1..MaxWalkDepth, breadthLimit : 1..MaxBreadthLimit,
     retrieval : Retrievals, semantic : SemanticResults]

IdsOf(nodes) == {nodes[i].id : i \in 1..Len(nodes)}
PathsOf(entries) == {entries[i].path : i \in 1..Len(entries)}

hasNode(g, id) == id \in IdsOf(g.nodes)
getNode(g, id) == g.nodes[CHOOSE i \in 1..Len(g.nodes) : g.nodes[i].id = id]
nodesByPath(g, path) == SelectSeq(g.nodes, LAMBDA n : n.path = path)
outgoingEdges(g, id) == SelectSeq(g.edges, LAMBDA e : e.from = id)

RECURSIVE nodesOf(_, _)
\* ids.map(id => graph.getNode(id)).filter(Boolean)
nodesOf(g, idList) ==
    IF idList = <<>> THEN <<>>
    ELSE (IF hasNode(g, Head(idList)) THEN <<getNode(g, Head(idList))>> ELSE <<>>)
         \o nodesOf(g, Tail(idList))

RECURSIVE sortByScore(_)
\* Array.prototype.sort with (a, b) => b.score - a.score: descending and stable
sortByScore(entries) ==
    IF entries = <<>> THEN <<>>
    ELSE LET front == sortByScore(SubSeq(entries, 1, Len(entries) - 1))
             last == entries[Len(entries)]
             k == Cardinality({i \in 1..Len(front) : front[i].score >= last.score})
         IN  SubSeq(front, 1, k) \o <<last>> \o SubSeq(front, k + 1, Len(front))

slice(entries, from, to) == SubSeq(entries, from + 1, Min(to, Len(entries)))

RECURSIVE dedupeNodes(_)
dedupeNodes(nodes) ==
    IF nodes = <<>> THEN <<>>
    ELSE LET front == dedupeNodes(SubSeq(nodes, 1, Len(nodes) - 1))
             last == nodes[Len(nodes)]
         IN  IF last.id \in IdsOf(front) THEN front ELSE Append(front, last)

\* dependencyPriority is exported * 2 + 1 / ln(length + 1): the second term lies in
\* (0, 1.45) and falls as length grows, so this key orders nodes as it does
dependencyPriority(node) ==
    LET exported == IF node.exported THEN 1 ELSE 0
        length == Max(node.endLine - node.startLine + 1, 1)
    IN  exported * 1000000 - length

limitByBreadth(nodes, limit) ==
    IF Len(nodes) <= limit THEN nodes
    ELSE LET scored == [i \in 1..Len(nodes) |->
                           [node |-> nodes[i], score |-> dependencyPriority(nodes[i])]]
             kept == slice(sortByScore(scored), 0, limit)
         IN  [i \in 1..Len(kept) |-> kept[i].node]

WalkedEdgeTypes == {"imports", "calls", "references"}

RECURSIVE pushEach(_, _, _, _)
\* for (const id of ids) if (!visited.has(id)) queue.push({ nodeId: id, depth })
pushEach(queue, idList, visited, depth) ==
    IF idList = <<>> THEN queue
    ELSE pushEach(IF Head(idList) \in visited THEN queue
                  ELSE Append(queue, [nodeId |-> Head(idList), depth |-> depth]),
                  Tail(idList), visited, depth)

RECURSIVE bfsFrom(_, _, _, _, _, _)
bfsFrom(g, queue, visited, found, maxDepth, edgeTypes) ==
    IF queue = <<>> THEN found
    ELSE LET nodeId == Head(queue).nodeId
             depth == Head(queue).depth
             seen == visited \cup {nodeId}
             filtered == SelectSeq(outgoingEdges(g, nodeId),
                                   LAMBDA e : e.type \in edgeTypes)
             next == [i \in 1..Len(filtered) |-> filtered[i].to]
         IN  IF nodeId \in visited \/ depth > maxDepth
             THEN bfsFrom(g, Tail(queue), visited, found, maxDepth, edgeTypes)
             ELSE IF ~hasNode(g, nodeId)
             THEN bfsFrom(g, Tail(queue), seen, found, maxDepth, edgeTypes)
             ELSE bfsFrom(g,
                          IF depth < maxDepth
                          THEN pushEach(Tail(queue), next, seen, depth + 1)
                          ELSE Tail(queue),
                          seen, Append(found, getNode(g, nodeId)), maxDepth, edgeTypes)

bfs(g, startNodeId, maxDepth, edgeTypes) ==
    bfsFrom(g, <<[nodeId |-> startNodeId, depth |-> 0]>>, {}, <<>>, maxDepth, edgeTypes)

RECURSIVE walkBackwardFrom(_, _, _, _, _, _)
walkBackwardFrom(g, queue, visited, found, maxDepth, edgeTypes) ==
    IF queue = <<>> THEN found
    ELSE LET currentId == Head(queue).nodeId
             depth == Head(queue).depth
             seen == visited \cup {currentId}
             incomingEdges == SelectSeq(g.edges,
                                  LAMBDA e : e.to = currentId /\ e.type \in edgeTypes)
             next == [i \in 1..Len(incomingEdges) |-> incomingEdges[i].from]
         IN  IF currentId \in visited \/ depth > maxDepth
             THEN walkBackwardFrom(g, Tail(queue), visited, found, maxDepth, edgeTypes)
             ELSE walkBackwardFrom(g,
                          IF depth < maxDepth
                          THEN pushEach(Tail(queue), next, seen, depth + 1)
                          ELSE Tail(queue),
                          seen,
                          IF hasNode(g, currentId) THEN Append(found, getNode(g, currentId))
                          ELSE found,
                          maxDepth, edgeTypes)

walkBackward(g, nodeId, maxDepth, edgeTypes) ==
    walkBackwardFrom(g, <<[nodeId |-> nodeId, depth |-> 0]>>, {}, <<>>, maxDepth, edgeTypes)

RECURSIVE dependenciesOfEach(_, _, _, _)
\* the loop of getForwardDependencies (forward) and of getBackwardDependencies
dependenciesOfEach(g, nodes, maxDepth, forward) ==
    IF nodes = <<>> THEN <<>>
    ELSE LET node == Head(nodes)
             deps == IF forward THEN bfs(g, node.id, maxDepth, WalkedEdgeTypes)
                     ELSE walkBackward(g, node.id, maxDepth, WalkedEdgeTypes)
         IN  SelectSeq(deps, LAMBDA dep : dep.id # node.id /\ dep.type # "file")
             \o dependenciesOfEach(g, Tail(nodes), maxDepth, forward)

getForwardDependencies(g, nodes, maxDepth, breadthLimit) ==
    limitByBreadth(dedupeNodes(dependenciesOfEach(g, nodes, maxDepth, TRUE)),
                   Max(1, breadthLimit))

getBackwardDependencies(g, nodes, maxDepth, breadthLimit) ==
    limitByBreadth(dedupeNodes(dependenciesOfEach(g, nodes, maxDepth, FALSE)),
                   Max(1, breadthLimit))

RECURSIVE decimalLength(_)
decimalLength(n) == IF n < 10 THEN 1 ELSE 1 + decimalLength(n \div 10)

\* the length of formatNode(node): 31 characters of template around the fields
formatNodeLength(node) ==
    31 + Len(node.type) + Len(node.name) + Len(node.path)
       + decimalLength(node.startLine) + decimalLength(node.endLine) + node.contentLength

RECURSIVE sumOfLengths(_)
sumOfLengths(lengths) ==
    IF lengths = <<>> THEN 0 ELSE Head(lengths) + sumOfLengths(Tail(lengths))

\* the length of strings.join(separator)
joinLength(lengths, separatorLength) ==
    IF lengths = <<>> THEN 0
    ELSE sumOfLengths(lengths) + separatorLength * (Len(lengths) - 1)

\* the length of nodes.map(formatNode).join('\n\n')
formattedLength(nodes) ==
    joinLength([i \in 1..Len(nodes) |-> formatNodeLength(nodes[i])], 2)

\* TokenCounter.count on a text of this length: Math.ceil(length / 4)
count(length) == (length + 3) \div 4

estimateTokens(nodes) == count(formattedLength(nodes))

\* the length of formatContext(context): each section that has nodes adds its header
\* and its nodes, and the sections are joined by '\n'
formatContextLength(ctx) ==
    LET section(headerLength, nodes) ==
            IF Len(nodes) > 0 THEN <<headerLength, formattedLength(nodes)>> ELSE <<>>
    IN  joinLength(section(31, ctx.target) \o section(86, ctx.backward)
                   \o section(49, ctx.forward) \o section(46, ctx.related), 1)

\* A JavaScript number: a fraction num/den with den > 0, NaN, or an infinity
Finite(num, den) == [kind |-> "finite", num |-> num, den |-> den]
NaN == [kind |-> "nan", num |-> 0, den |-> 1]
Infinity == [kind |-> "+inf", num |-> 1, den |-> 1]
NegInfinity == [kind |-> "-inf", num |-> -1, den |-> 1]

isFinite(x) == x.kind = "finite"

\* a < b on numbers other than NaN
lessThan(a, b) ==
    CASE a.kind = "-inf" -> b.kind # "-inf"
      [] a.kind = "+inf" -> FALSE
      [] OTHER -> \/ b.kind = "+inf"
                  \/ b.kind = "finite" /\ a.num * b.den < b.num * a.den

mathCeil(x) == IF isFinite(x) THEN Finite(-((-x.num) \div x.den), 1) ELSE x
mathFloor(x) == IF isFinite(x) THEN Finite(x.num \div x.den, 1) ELSE x
\* Math.max and Math.min return NaN when an argument is NaN
mathMax(a, b) ==
    IF a.kind = "nan" \/ b.kind = "nan" THEN NaN ELSE IF lessThan(a, b) THEN b ELSE a
mathMin(a, b) ==
    IF a.kind = "nan" \/ b.kind = "nan" THEN NaN ELSE IF lessThan(a, b) THEN a ELSE b

clampTokenBudgetCeil(maxTokens) ==
    LET clamped == mathMin(Finite(12000, 1), mathMax(Finite(6000, 1), mathCeil(maxTokens)))
    IN  IF isFinite(clamped) THEN clamped.num ELSE 6000

\* the result is a whole number: it is returned as an integer
clampTokenBudget(maxTokens) ==
    LET clamped == mathMin(Finite(12000, 1), mathMax(Finite(6000, 1), mathFloor(maxTokens)))
    IN  IF isFinite(clamped) THEN clamped.num ELSE 6000

tag(nodes, category) == [i \in 1..Len(nodes) |-> [nodes[i] EXCEPT !.category = category]]

RECURSIVE withSiblings(_, _, _, _)
\* the loop over uniqueTarget that appends the untaken siblings of each target
withSiblings(g, targets, taken, related) ==
    IF targets = <<>> THEN related
    ELSE LET node == Head(targets)
             siblings == SelectSeq(nodesByPath(g, node.path),
                             LAMBDA sibling : /\ sibling.id # node.id
                                              /\ sibling.id \notin taken
                                              /\ sibling.type # "file")
             fresh == SelectSeq(siblings, LAMBDA sibling : sibling.id \notin IdsOf(related))
         IN  withSiblings(g, Tail(targets), taken, related \o fresh)

\* cleanBackward of a deduplicateAndTag that forgets the forward dependencies
cleanBackwardKeepsForward(uniqueBackward, targetIds, cleanForwardIds) ==
    SelectSeq(uniqueBackward, LAMBDA n : n.id \notin targetIds)

cleanBackward(uniqueBackward, targetIds, cleanForwardIds) ==
    SelectSeq(uniqueBackward, LAMBDA n : n.id \notin targetIds \cup cleanForwardIds)

deduplicateAndTag(g, target, forward, backward, related, breadthLimit) ==
    LET uniqueTarget == dedupeNodes(target)
        uniqueForward == dedupeNodes(forward)
        uniqueBackward == dedupeNodes(backward)
        uniqueRelated == dedupeNodes(related)
        targetIds == IdsOf(uniqueTarget)
        cleanForward == SelectSeq(uniqueForward, LAMBDA n : n.id \notin targetIds)
        cleanForwardIds == IdsOf(cleanForward)
        keptBackward == cleanBackward(uniqueBackward, targetIds, cleanForwardIds)
        cleanBackwardIds == IdsOf(keptBackward)
        taken == targetIds \cup cleanForwardIds \cup cleanBackwardIds
        cleanRelated ==
            withSiblings(g, uniqueTarget, taken,
                         SelectSeq(uniqueRelated, LAMBDA n : n.id \notin taken))
        category(id) == IF id \in targetIds THEN "target"
                        ELSE IF id \in cleanForwardIds THEN "forward"
                        ELSE IF id \in cleanBackwardIds THEN "backward"
                        ELSE "related"
    IN  [target |-> tag(uniqueTarget, "target"),
         forward |-> limitByBreadth(tag(cleanForward, "forward"), Max(1, breadthLimit)),
         backward |-> limitByBreadth(tag(keptBackward, "backward"), Max(1, breadthLimit)),
         related |-> limitByBreadth(tag(cleanRelated, "related"), Max(1, breadthLimit)),
         \* the category is written on the node objects of the graph
         graph |-> [g EXCEPT !.nodes =
                       [i \in 1..Len(g.nodes) |->
                           IF g.nodes[i].id \in taken \cup IdsOf(cleanRelated)
                           THEN [g.nodes[i] EXCEPT !.category = category(g.nodes[i].id)]
                           ELSE g.nodes[i]]]]

RECURSIVE pack(_, _, _, _)
\* one loop of buildWithinBudget: a node is kept when currentTokens + nodeTokens is at
\* most share percent of maxTokens
pack(nodes, currentTokens, maxTokens, share) ==
    IF nodes = <<>> THEN [kept |-> <<>>, currentTokens |-> currentTokens]
    ELSE LET nodeTokens == estimateTokens(<<Head(nodes)>>)
             fits == (currentTokens + nodeTokens) * 100 <= maxTokens * share
             rest == pack(Tail(nodes),
                          IF fits THEN currentTokens + nodeTokens ELSE currentTokens,
                          maxTokens, share)
         IN  [kept |-> (IF fits THEN <<Head(nodes)>> ELSE <<>>) \o rest.kept,
              currentTokens |-> rest.currentTokens]

buildWithinBudget(target, forward, backward, related, maxTokens) ==
    LET b == pack(backward, estimateTokens(target), maxTokens, 80)
        f == pack(forward, b.currentTokens, maxTokens, 95)
        r == pack(related, f.currentTokens, maxTokens, 100)
    IN  [target |-> target, forward |-> f.kept, backward |-> b.kept, related |-> r.kept]

scoreNodeRelevance(node, query) ==
    (IF node.name \in query.identifiers THEN 10 ELSE 0)
    + (IF node.name \in query.identifiers THEN 5 ELSE 0)
    + (IF node.type \in query.types THEN 2 ELSE 0)
    + (IF query.action THEN 1 ELSE 0)

\* threw: the file has no nodes in the graph
identifyTargetNodes(g, query, filePath) ==
    LET fileNodes == nodesByPath(g, filePath)
        symbols == SelectSeq(fileNodes, LAMBDA node : node.type # "file")
        scored == sortByScore(SelectSeq(
                      [i \in 1..Len(symbols) |->
                          [node |-> symbols[i],
                           score |-> scoreNodeRelevance(symbols[i], query)]],
                      LAMBDA s : s.score > 1))
        top == slice(scored, 0, 3)
    IN  [threw |-> Len(fileNodes) = 0,
         nodes |-> IF Len(scored) > 0 THEN [i \in 1..Len(top) |-> top[i].node]
                   ELSE SelectSeq(fileNodes, LAMBDA n : n.type \in {"function", "class"})]

\* path.normalize on the paths of the model, then backslashes to slashes
normalizePath(filePath) == IF filePath = "./a.ts" THEN "a.ts" ELSE filePath

createCandidate(path) == [path |-> path, score |-> 0, nodes |-> <<>>]

RECURSIVE groupByPath(_, _)
\* one candidate per path, in the order the paths first appear in reranked
groupByPath(g, reranked) ==
    IF reranked = <<>> THEN <<>>
    ELSE LET grouped == groupByPath(g, SubSeq(reranked, 1, Len(reranked) - 1))
             hit == reranked[Len(reranked)]
             node == getNode(g, hit.id)
             add(entry) == [entry EXCEPT !.score = @ + hit.score,
                                         !.nodes = Append(@, node)]
         IN  IF ~hasNode(g, hit.id) THEN grouped
             ELSE IF node.path \in PathsOf(grouped)
             THEN [i \in 1..Len(grouped) |->
                      IF grouped[i].path = node.path THEN add(grouped[i]) ELSE grouped[i]]
             ELSE Append(grouped, add(createCandidate(node.path)))

RECURSIVE uniqueStrings(_)
\* the elements of a Set in insertion order
uniqueStrings(strings) ==
    IF strings = <<>> THEN <<>>
    ELSE LET front == uniqueStrings(SubSeq(strings, 1, Len(strings) - 1))
             last == strings[Len(strings)]
         IN  IF \E i \in 1..Len(front) : front[i] = last THEN front ELSE Append(front, last)

RECURSIVE pathsNamed(_, _)
\* nameLookup of each token of four characters or more, in order
pathsNamed(g, tokens) ==
    IF tokens = <<>> THEN <<>>
    ELSE LET named == SelectSeq(g.nodes, LAMBDA n : n.name = Head(tokens))
         IN  (IF Len(Head(tokens)) >= 4
              THEN [i \in 1..Len(named) |-> normalizePath(named[i].path)] ELSE <<>>)
             \o pathsNamed(g, Tail(tokens))

inferQueryPaths(g, query) ==
    uniqueStrings([i \in 1..Len(query.files) |-> normalizePath(query.files[i])]
                  \o pathsNamed(g, query.tokens))

RECURSIVE injectEach(_, _, _)
injectEach(g, candidates, seeds) ==
    IF seeds = <<>> THEN candidates
    ELSE LET seedPath == Head(seeds)
             nodes == nodesByPath(g, seedPath)
             candidate == [createCandidate(seedPath) EXCEPT
                              !.nodes = slice(nodes, 0, 3), !.score = @ + 50]
         IN  injectEach(g,
                        IF seedPath \in PathsOf(candidates) \/ Len(nodes) = 0
                        THEN candidates ELSE Append(candidates, candidate),
                        Tail(seeds))

injectSeedPaths(g, candidates, seedPaths, query) ==
    injectEach(g, candidates,
               uniqueStrings([i \in 1..Len(seedPaths) |-> normalizePath(seedPaths[i])]
                             \o inferQueryPaths(g, query)))

applyRecentBoost(candidates, recentPaths) ==
    LET recent == {normalizePath(recentPaths[i]) : i \in 1..Len(recentPaths)}
    IN  [i \in 1..Len(candidates) |->
            IF normalizePath(candidates[i].path) \in recent
            THEN [candidates[i] EXCEPT !.score = @ + 10] ELSE candidates[i]]

\* the intent whose (match, path) patterns both hold: /src\/auth\// is the one path
\* pattern that a path of the model matches
intentBoost(query, path) ==
    IF "auth" \in query.intents /\ path = "src/auth/c.ts" THEN 20 ELSE 0

applyIntentBoost(query, candidates) ==
    [i \in 1..Len(candidates) |->
        [candidates[i] EXCEPT !.score = @ + intentBoost(query, candidates[i].path)]]

NoResolution == [hasPrimary |-> FALSE, candidates |-> <<>>]

\* TargetResolver.resolve; retrieval stands for the searches and the reranker
resolve(g, query, recentPaths, limit, retrieval) ==
    IF ~retrieval.hits \/ Len(retrieval.reranked) = 0 THEN NoResolution
    ELSE LET grouped == groupByPath(g, retrieval.reranked)
             normalized == [i \in 1..Len(grouped) |->
                               [grouped[i] EXCEPT !.path = normalizePath(@)]]
             injected == injectSeedPaths(g, normalized, recentPaths, query)
             boosted == applyIntentBoost(query, applyRecentBoost(injected, recentPaths))
             final == slice(sortByScore(boosted), 0, limit)
         IN  [hasPrimary |-> Len(final) > 0, candidates |-> final]

NoContext ==
    [status |-> "none", error |-> "", targetNodes |-> <<>>, forwardDeps |-> <<>>,
     backwardDeps |-> <<>>, relatedByQuery |-> <<>>, tokensUsed |-> 0,
     primaryFilePath |-> NoPath, candidateFilePaths |-> <<>>, budget |-> 0]

Failure(error) == [NoContext EXCEPT !.status = "threw", !.error = error]

fallbackPathsOf(req) ==
    req.candidateFilePaths
    \o (IF req.targetFilePath # NoPath THEN <<req.targetFilePath>> ELSE <<>>)

resolutionOf(g, req) == resolve(g, req.query, fallbackPathsOf(req), 5, req.retrieval)

\* resolution.primary?.path ?? fallbackPaths[0]
primaryFilePathFrom(req, res) ==
    IF res.hasPrimary THEN res.candidates[1].path
    ELSE IF Len(fallbackPathsOf(req)) > 0 THEN fallbackPathsOf(req)[1]
    ELSE NoPath

primaryFilePathOf(g, req) == primaryFilePathFrom(req, resolutionOf(g, req))

\* step 1 of buildContextForChange: the nodes of the resolver's primary, else the
\* nodes identifyTargetNodes picks, else the symbols of the file or its first node
targetNodesFrom(g, req, res, primaryFilePath) ==
    LET fromPrimary == IF res.hasPrimary THEN res.candidates[1].nodes ELSE <<>>
        identified == identifyTargetNodes(g, req.query, primaryFilePath)
        fileNodes == nodesByPath(g, primaryFilePath)
        symbols == SelectSeq(fileNodes, LAMBDA node : node.type # "file")
    IN  IF Len(fromPrimary) > 0 THEN [threw |-> FALSE, nodes |-> fromPrimary]
        ELSE IF identified.threw THEN [threw |-> TRUE, nodes |-> <<>>]
        ELSE IF Len(identified.nodes) > 0 THEN [threw |-> FALSE, nodes |-> identified.nodes]
        ELSE IF Len(symbols) = 0 /\ Len(fileNodes) > 0
        THEN [threw |-> FALSE, nodes |-> <<fileNodes[1]>>]
        ELSE [threw |-> FALSE, nodes |-> symbols]

targetNodesOf(g, req) ==
    targetNodesFrom(g, req, resolutionOf(g, req), primaryFilePathOf(g, req))

seededRelatedOf(g, candidates) ==
    IF Len(candidates) <= 1 THEN <<>>
    ELSE LET rest == Tail(candidates)
             RECURSIVE flat(_)
             flat(i) == IF i > Len(rest) THEN <<>> ELSE rest[i].nodes \o flat(i + 1)
         IN  flat(1)

\* steps 2 to 5: the four lists as deduplicateAndTag returns them
categorised(g, req, res, targetNodes) ==
    deduplicateAndTag(g, targetNodes,
                      getForwardDependencies(g, targetNodes, req.walkDepth, req.breadthLimit),
                      getBackwardDependencies(g, targetNodes, req.walkDepth, req.breadthLimit),
                      nodesOf(g, req.semantic) \o seededRelatedOf(g, res.candidates),
                      req.breadthLimit)

\* steps 6 and 7: the context returned for the lists that fit the budget
returnedContext(req, res, primaryFilePath, tokenBudget, finalContext) ==
    [status |-> "returned", error |-> "",
     targetNodes |-> finalContext.target,
     forwardDeps |-> finalContext.forward,
     backwardDeps |-> finalContext.backward,
     relatedByQuery |-> finalContext.related,
     tokensUsed |-> count(formatContextLength(finalContext)),
     primaryFilePath |-> primaryFilePath,
     candidateFilePaths |->
         uniqueStrings(<<primaryFilePath>> \o fallbackPathsOf(req)
             \o [i \in 1..Len(res.candidates) |-> res.candidates[i].path]),
     budget |-> tokenBudget]

contextWithin(req, res, primaryFilePath, tokenBudget, deduped) ==
    [context |->
         returnedContext(req, res, primaryFilePath, tokenBudget,
                         buildWithinBudget(deduped.target, deduped.forward,
                                           deduped.backward, deduped.related, tokenBudget)),
     graph |-> deduped.graph]

contextForTargets(g, req, res, primaryFilePath, targets) ==
    IF primaryFilePath = NoPath
    THEN [context |-> Failure("Unable to determine target file for this request."),
          graph |-> g]
    ELSE IF targets.threw
    THEN [context |-> Failure("No nodes found for file"), graph |-> g]
    ELSE contextWithin(req, res, primaryFilePath, clampTokenBudget(req.maxTokens),
                       categorised(g, req, res, targets.nodes))

contextForPrimary(g, req, res, primaryFilePath) ==
    contextForTargets(g, req, res, primaryFilePath,
                      targetNodesFrom(g, req, res, primaryFilePath))

contextForResolution(g, req, res) ==
    contextForPrimary(g, req, res, primaryFilePathFrom(req, res))

\* what buildContextForChange returns or throws, and the graph it leaves tagged
buildContextForChange(g, req) == contextForResolution(g, req, resolutionOf(g, req))

BuildContextForChange ==
    /\ dependencyContext.status = "none"
    /\ LET built == buildContextForChange(retrGraph, request)
       IN  /\ dependencyContext' = built.context
           /\ retrGraph' = built.graph
    /\ UNCHANGED <<notRetr, request>>

RetrIdle ==
    /\ request = [query |-> Query(<<>>, {}, FALSE, <<>>, {}), targetFilePath |-> NoPath,
                  candidateFilePaths |-> <<>>,
                  maxTokens |-> [kind |-> "finite", num |-> 6000, den |-> 1], walkDepth |-> 2,
                  breadthLimit |-> 3, retrieval |-> [hits |-> FALSE, reranked |-> <<>>],
                  semantic |-> <<>>]
    /\ retrGraph = NoRetrGraph
    /\ dependencyContext = NoContext

(***************************************************************************)
(* HnswAnnIndex.  Vectors are kept normalised to length 5 instead of 1, so *)
(* that the coordinates, 25 times each dot product and 25 times each       *)
(* distance are integers; every comparison the index makes is between two  *)
(* such numbers.                                                           *)
(***************************************************************************)
MaxAnnOps == 4
MaxAnnLevel == 1

AnnIds == {"a", "b", "c", "d"}

\* the vector each id is indexed with
VectorOf(id) ==
    CASE id = "a" -> <<5, 0>>
      [] id = "b" -> <<4, 3>>
      [] id = "c" -> <<4, -3>>
      [] id = "d" -> <<-6, 8>>

\* vectors of another dimension, and the empty one
OtherVectors == {<<1, 0, 0>>, <<>>}
AnnQueries == {<<-6, 8>>, <<4, 3>>, <<0, 1>>, <<1, 0, 0>>}
\* the default of 16 never prunes an index of four vectors
ConnectionLimits == {1, 2}

RECURSIVE dotFrom(_, _, _)
dotFrom(a, b, i) ==
    IF i > Min(Len(a), Len(b)) THEN 0 ELSE a[i] * b[i] + dotFrom(a, b, i + 1)

dot(a, b) == dotFrom(a, b, 1)

\* input / Math.sqrt(sum of squares), times 5; the zero vector stays zero
normalize(input) ==
    LET squares == dot(input, input)
        norm == CHOOSE n \in 0..squares : n * n <= squares /\ (n + 1) * (n + 1) > squares
    IN  [i \in 1..Len(input) |-> IF norm = 0 THEN 0 ELSE (input[i] * 5) \div norm]

\* 1 - dot(a, b), times 25
distance(a, b) == 25 - dot(a, b)

NoNeighbors == [layer \in 0..MaxAnnLevel |-> <<>>]

HnswNode(id, level, vector) ==
    [id |-> id, level |-> level, vector |-> vector, neighbors |-> NoNeighbors]

hasId(nodes, id) == \E i \in 1..Len(nodes) : nodes[i].id = id
nodeOf(nodes, id) == nodes[CHOOSE i \in 1..Len(nodes) : nodes[i].id = id]

\* Set.add and Set.delete on a set kept in insertion order
setAdd(members, id) ==
    IF \E i \in 1..Len(members) : members[i] = id THEN members ELSE Append(members, id)
setDelete(members, id) == SelectSeq(members, LAMBDA m : m # id)

RECURSIVE sortByDistance(_)
\* Array.prototype.sort with (a, b) => a.distance - b.distance: ascending and stable
sortByDistance(entries) ==
    IF entries = <<>> THEN <<>>
    ELSE LET front == sortByDistance(SubSeq(entries, 1, Len(entries) - 1))
             last == entries[Len(entries)]
             k == Cardinality({i \in 1..Len(front) : front[i].distance <= last.distance})
         IN  SubSeq(front, 1, k) \o <<last>> \o SubSeq(front, k + 1, Len(front))

RECURSIVE closerNeighbour(_, _, _, _, _, _)
\* the for loop of greedySearchLayer: the last present neighbour nearer than
\* currentDistance, or current when there is none
closerNeighbour(nodes, query, neighbours, currentDistance, current, i) ==
    IF i > Len(neighbours) THEN current
    ELSE closerNeighbour(nodes, query, neighbours, currentDistance,
             IF /\ hasId(nodes, neighbours[i])
                /\ distance(query, nodeOf(nodes, neighbours[i]).vector) < currentDistance
             THEN neighbours[i] ELSE current,
             i + 1)

RECURSIVE greedySearchLayer(_, _, _, _)
greedySearchLayer(nodes, query, entry, layer) ==
    LET neighbours == nodeOf(nodes, entry).neighbors[layer]
        next == closerNeighbour(nodes, query, neighbours,
                                distance(query, nodeOf(nodes, entry).vector), entry, 1)
    IN  IF Len(neighbours) = 0 \/ next = entry THEN entry
        ELSE greedySearchLayer(nodes, query, next, layer)

pushBest(bestQueue, item, ef) ==
    LET sorted == sortByDistance(Append(bestQueue, item))
    IN  IF Len(sorted) > ef THEN SubSeq(sorted, 1, Len(sorted) - 1) ELSE sorted

RECURSIVE visitNeighbours(_, _, _, _, _, _)
\* the for loop of searchLayer over the neighbours of the current candidate
visitNeighbours(nodes, query, neighbours, ef, queues, i) ==
    IF i > Len(neighbours) THEN queues
    ELSE LET neighbourId == neighbours[i]
             seen == [queues EXCEPT !.visited = @ \cup {neighbourId}]
             item == [id |-> neighbourId,
                      distance |-> distance(query, nodeOf(nodes, neighbourId).vector)]
             worst == queues.best[Len(queues.best)]
         IN  IF neighbourId \in queues.visited
             THEN visitNeighbours(nodes, query, neighbours, ef, queues, i + 1)
             ELSE IF ~hasId(nodes, neighbourId)
             THEN visitNeighbours(nodes, query, neighbours, ef, seen, i + 1)
             ELSE IF \/ Len(queues.best) = 0 \/ Len(queues.best) < ef
                     \/ item.distance < worst.distance
             THEN visitNeighbours(nodes, query, neighbours, ef,
                      [seen EXCEPT !.candidates = sortByDistance(Append(@, item)),
                                   !.best = pushBest(@, item, ef)],
                      i + 1)
             ELSE visitNeighbours(nodes, query, neighbours, ef, seen, i + 1)

RECURSIVE searchLayerFrom(_, _, _, _, _)
\* the while loop of searchLayer
searchLayerFrom(nodes, query, layer, ef, queues) ==
    IF Len(queues.candidates) = 0 THEN queues.best
    ELSE LET current == Head(queues.candidates)
             rest == [queues EXCEPT !.candidates = Tail(@)]
         IN  IF /\ Len(queues.best) > 0
                /\ current.distance > queues.best[Len(queues.best)].distance
             THEN queues.best
             ELSE searchLayerFrom(nodes, query, layer, ef,
                      visitNeighbours(nodes, query,
                          nodeOf(nodes, current.id).neighbors[layer], ef, rest, 1))

\* the ids of the nodes searchLayer returns, nearest first
searchLayer(nodes, query, entry, layer, ef) ==
    LET first == [id |-> entry, distance |-> distance(query, nodeOf(nodes, entry).vector)]
        best == searchLayerFrom(nodes, query, layer, ef,
                    [candidates |-> <<first>>, best |-> pushBest(<<>>, first, ef),
                     visited |-> {entry}])
    IN  [i \in 1..Len(best) |-> best[i].id]

byDistance(nodes, from, idList) ==
    sortByDistance([i \in 1..Len(idList) |->
                       [id |-> idList[i],
                        distance |-> distance(from, nodeOf(nodes, idList[i]).vector)]])

selectNeighbors(nodes, query, candidates, max) ==
    LET ordered == slice(byDistance(nodes, query, candidates), 0, max)
    IN  [i \in 1..Len(ordered) |-> ordered[i].id]

setNeighbors(nodes, id, layer, members) ==
    [i \in 1..Len(nodes) |->
        IF nodes[i].id = id THEN [nodes[i] EXCEPT !.neighbors[layer] = members]
        ELSE nodes[i]]

pruneNeighbors(nodes, id, layer, limit) ==
    LET neighbours == nodeOf(nodes, id).neighbors[layer]
        present == SelectSeq(neighbours, LAMBDA n : hasId(nodes, n))
        ordered == slice(byDistance(nodes, nodeOf(nodes, id).vector, present), 0, limit)
    IN  IF Len(neighbours) <= limit THEN nodes
        ELSE setNeighbors(nodes, id, layer, [i \in 1..Len(ordered) |-> ordered[i].id])

NoEntry == "none"
EmptyIndex == [nodes |-> <<>>, vectorDimension |-> 0, entryPoint |-> NoEntry, maxLevel |-> 0]

\* the first node in Map order whose level is above every earlier one
recalculateMaxLevel(ix) ==
    LET levels == {ix.nodes[i].level : i \in 1..Len(ix.nodes)} \cup {0}
        max == CHOOSE l \in levels : \A m \in levels : m <= l
        best == CHOOSE i \in 1..Len(ix.nodes) : ix.nodes[i].level = max
                    /\ \A j \in 1..(i - 1) : ix.nodes[j].level < max
    IN  [ix EXCEPT !.maxLevel = max,
                   !.entryPoint = IF max > 0 THEN ix.nodes[best].id ELSE @]

remove(ix, id) ==
    LET node == nodeOf(ix.nodes, id)
        linked(n, layer) == \E i \in 1..Len(node.neighbors[layer]) :
                                node.neighbors[layer][i] = n.id
        unlinked == [i \in 1..Len(ix.nodes) |->
                        [ix.nodes[i] EXCEPT !.neighbors =
                            [layer \in DOMAIN @ |->
                                IF linked(ix.nodes[i], layer) THEN setDelete(@[layer], id)
                                ELSE @[layer]]]]
        kept == SelectSeq(unlinked, LAMBDA n : n.id # id)
        after == [ix EXCEPT !.nodes = kept]
    IN  IF ~hasId(ix.nodes, id) THEN ix
        ELSE IF ix.entryPoint = id
        THEN recalculateMaxLevel([after EXCEPT !.entryPoint =
                 IF Len(kept) > 0 THEN kept[1].id ELSE NoEntry])
        ELSE after

RECURSIVE descend(_, _, _, _, _)
\* greedySearchLayer on each layer from `from` down to `to`
descend(nodes, query, entry, from, to) ==
    IF from < to THEN entry
    ELSE descend(nodes, query, greedySearchLayer(nodes, query, entry, from), from - 1, to)

RECURSIVE connectEach(_, _, _, _, _)
\* the loop of add over the selected neighbours: link back, then prune
connectEach(nodes, id, selected, layer, limit) ==
    IF selected = <<>> THEN nodes
    ELSE LET neighbor == Head(selected)
             linked == setNeighbors(nodes, neighbor, layer,
                           setAdd(nodeOf(nodes, neighbor).neighbors[layer], id))
         IN  connectEach(pruneNeighbors(linked, neighbor, layer, limit), id,
                         Tail(selected), layer, limit)

RECURSIVE linkLayers(_, _, _, _, _)
\* the loop of add over the layers of the new node, from layer down to 0
linkLayers(nodes, id, entry, layer, limit) ==
    IF layer < 0 THEN nodes
    ELSE LET query == nodeOf(nodes, id).vector
             neighbours == searchLayer(nodes, query, entry, layer, 200)
             selected == selectNeighbors(nodes, query, neighbours, limit)
             linked == connectEach(setNeighbors(nodes, id, layer, selected), id,
                                   selected, layer, limit)
         IN  linkLayers(linked, id, greedySearchLayer(linked, query, entry, layer),
                        layer - 1, limit)

\* add(id, vector) when randomLevel() returns level
add(ix, id, vector, level, limit) ==
    LET removed == IF hasId(ix.nodes, id) THEN remove(ix, id) ELSE ix
        normalized == normalize(vector)
        withNode == [removed EXCEPT !.vectorDimension = Len(vector),
                                    !.nodes = Append(@, HnswNode(id, level, normalized))]
        maxLevel == Max(removed.maxLevel, level)
        entry == descend(withNode.nodes, normalized, removed.entryPoint, maxLevel, level + 1)
        linked == linkLayers(withNode.nodes, id, entry, Min(level, maxLevel), limit)
    IN  IF Len(vector) = 0 THEN [index |-> ix, threw |-> TRUE]
        ELSE IF removed.vectorDimension # 0 /\ Len(vector) # removed.vectorDimension
        THEN [index |-> removed, threw |-> TRUE]
        ELSE IF removed.entryPoint = NoEntry
        THEN [index |-> [withNode EXCEPT !.entryPoint = id, !.maxLevel = level],
              threw |-> FALSE]
        ELSE [index |-> [withNode EXCEPT
                            !.nodes = linked, !.maxLevel = maxLevel,
                            !.entryPoint =
                                IF level > nodeOf(linked, removed.entryPoint).level
                                THEN id ELSE @],
              threw |-> FALSE]

\* search(query, topK) with the default efSearch of 64
search(ix, query, topK) ==
    LET normalizedQuery == normalize(query)
        entry == descend(ix.nodes, normalizedQuery, ix.entryPoint, ix.maxLevel, 1)
        candidates == searchLayer(ix.nodes, normalizedQuery, entry, 0, Max(64, topK))
        unseen == SelectSeq(ix.nodes,
                      LAMBDA n : \A i \in 1..Len(candidates) : candidates[i] # n.id)
        needed == Min(topK, Len(ix.nodes)) - Len(candidates)
        ids == candidates
               \o (IF needed > 0 THEN [i \in 1..Len(unseen) |-> unseen[i].id] ELSE <<>>)
        scored == [i \in 1..Len(ids) |->
                      [id |-> ids[i],
                       score |-> dot(normalizedQuery, nodeOf(ix.nodes, ids[i]).vector)]]
    IN  IF Len(ix.nodes) = 0 THEN [threw |-> FALSE, results |-> <<>>]
        ELSE IF ix.vectorDimension = 0 \/ Len(query) # ix.vectorDimension
        THEN [threw |-> TRUE, results |-> <<>>]
        ELSE IF ix.entryPoint = NoEntry THEN [threw |-> FALSE, results |-> <<>>]
        ELSE [threw |-> FALSE, results |-> slice(sortByScore(scored), 0, topK)]

AnnCalled(op, id, vector, threw, results) ==
    [op |-> op, id |-> id, vector |-> vector, threw |-> threw, results |-> results]

Add(id, vector, level) ==
    /\ annSteps < MaxAnnOps
    /\ LET out == add(annIndex, id, vector, level, maxConnections)
       IN  /\ annIndex' = out.index
           /\ annCall' = AnnCalled("add", id, vector, out.threw, <<>>)
    /\ annSteps' = annSteps + 1
    /\ UNCHANGED <<notAnn, maxConnections>>

Remove(id) ==
    /\ annSteps < MaxAnnOps
    /\ annIndex' = remove(annIndex, id)
    /\ annCall' = AnnCalled("remove", id, <<>>, FALSE, <<>>)
    /\ annSteps' = annSteps + 1
    /\ UNCHANGED <<notAnn, maxConnections>>

Search(query) ==
    /\ annCall.op # "search"
    /\ LET out == search(annIndex, query, 1)
       IN  annCall' = AnnCalled("search", "", query, out.threw, out.results)
    /\ UNCHANGED <<notAnn, maxConnections, annIndex, annSteps>>

Reset ==
    /\ annSteps < MaxAnnOps
    /\ annIndex.vectorDimension # 0
    /\ annIndex' = EmptyIndex
    /\ annCall' = AnnCalled("reset", "", <<>>, FALSE, <<>>)
    /\ annSteps' = annSteps + 1
    /\ UNCHANGED <<notAnn, maxConnections>>

AnnIdle ==
    /\ annIndex = EmptyIndex
    /\ maxConnections = 16
    /\ annCall = AnnCalled("new", "", <<>>, FALSE, <<>>)
    /\ annSteps = 0

(***************************************************************************)
(* InMemoryGraphStore                                                      *)
(***************************************************************************)
MaxStoreOps == 5
Holders == {"graph", "loaded"}
StoreNodeIds == {"n1", "n2"}
StoreEdgePool == [id : {"e1"}, from : StoreNodeIds, to : StoreNodeIds]
Categories == {"target", "forward"}

\* A GraphNode object as the builder makes it: no category, no embedding yet
NewNodeObject == [category |-> "none", embedded |-> FALSE]

\* A Map entry of a graph: the reference of the node object, with the fields no code
\* rewrites in place
NodeEntry(id, path, ref) == [id |-> id, path |-> path, obj |-> ref]

newNodeObject(objects) == Cardinality(DOMAIN objects) + 1

\* What a reader of the graph sees: every node with the fields of its object
contentOf(g, objects) ==
    [nodes |-> [id \in DOMAIN g.nodes |->
                   [id |-> id, path |-> g.nodes[id].path,
                    category |-> objects[g.nodes[id].obj].category,
                    embedded |-> objects[g.nodes[id].obj].embedded]],
     edges |-> g.edges]

NotSaved == [has |-> FALSE, graph |-> EmptyGraph]
MemCalled(op, holder, isNull) == [op |-> op, holder |-> holder, isNull |-> isNull]

MemStep ==
    /\ memSteps < MaxStoreOps
    /\ memSteps' = memSteps + 1
    /\ UNCHANGED notMem

\* save(graph): this.graph = graph.clone(); clone copies the Maps and the index Sets,
\* the node objects are the same ones
Save(holder) ==
    /\ MemStep
    /\ memGraph' = [has |-> TRUE, graph |-> clone(held[holder])]
    /\ savedContent' = contentOf(held[holder], nodeObjects)
    /\ memCall' = MemCalled("save", holder, FALSE)
    /\ UNCHANGED <<held, nodeObjects>>

\* load(): null without a saved graph, else this.graph.clone()
Load ==
    /\ MemStep
    /\ held' = IF memGraph.has THEN [held EXCEPT !["loaded"] = clone(memGraph.graph)]
               ELSE held
    /\ memCall' = MemCalled("load", "loaded", ~memGraph.has)
    /\ UNCHANGED <<memGraph, nodeObjects, savedContent>>

Clear ==
    /\ MemStep
    /\ memGraph' = NotSaved
    /\ memCall' = MemCalled("clear", "", FALSE)
    /\ UNCHANGED <<held, nodeObjects, savedContent>>

\* a client adds or replaces a node of a graph it holds by a new node object
HeldUpsertNode(holder, id) ==
    /\ MemStep
    /\ LET ref == newNodeObject(nodeObjects)
       IN  /\ nodeObjects' = MapSet(nodeObjects, ref, NewNodeObject)
           /\ held' = [held EXCEPT ![holder] = upsertNode(@, NodeEntry(id, "a", ref))]
    /\ memCall' = MemCalled("upsertNode", holder, FALSE)
    /\ UNCHANGED <<memGraph, savedContent>>

HeldUpsertEdge(holder, edge) ==
    /\ MemStep
    /\ ~upsertEdgeThrows(held[holder], edge)
    /\ held' = [held EXCEPT ![holder] = upsertEdge(@, edge)]
    /\ memCall' = MemCalled("upsertEdge", holder, FALSE)
    /\ UNCHANGED <<memGraph, nodeObjects, savedContent>>

HeldRemoveNode(holder, id) ==
    /\ MemStep
    /\ Has(held[holder].nodes, id)
    /\ held' = [held EXCEPT ![holder] = removeNode(@, id)]
    /\ memCall' = MemCalled("removeNode", holder, FALSE)
    /\ UNCHANGED <<memGraph, nodeObjects, savedContent>>

\* deduplicateAndTag on a retriever over a held graph: n.metadata.category = ...
TagNode(holder, id, category) ==
    /\ MemStep
    /\ Has(held[holder].nodes, id)
    /\ nodeObjects' = [nodeObjects EXCEPT ![held[holder].nodes[id].obj].category = category]
    /\ memCall' = MemCalled("tag", holder, FALSE)
    /\ UNCHANGED <<memGraph, held, savedContent>>

\* getSemanticContext over a held graph: node.embedding = await embedder.embed(...)
\* for a node without an embedding
EmbedNode(holder, id) ==
    /\ MemStep
    /\ Has(held[holder].nodes, id)
    /\ ~nodeObjects[held[holder].nodes[id].obj].embedded
    /\ nodeObjects' = [nodeObjects EXCEPT ![held[holder].nodes[id].obj].embedded = TRUE]
    /\ memCall' = MemCalled("embed", holder, FALSE)
    /\ UNCHANGED <<memGraph, held, savedContent>>

MemIdle ==
    /\ memGraph = NotSaved
    /\ held = [h \in Holders |-> EmptyGraph]
    /\ nodeObjects = EmptyMap
    /\ savedContent = contentOf(EmptyGraph, EmptyMap)
    /\ memCall = MemCalled("new", "", FALSE)
    /\ memSteps = 0

(***************************************************************************)
(* GraphBuilder.build over contents the parser may reject                  *)
(***************************************************************************)
MaxWrites == 3
\* a content parser.parse throws on
Unparsable == 0
Contents == Versions \cup {Unparsable}

\* parseContent: parser.parse threw, rethrown as "Failed to parse <path>"
parseContentThrows(files, filePath) == files[filePath] = Unparsable

\* build awaits buildFileSnapshot of each path in turn, outside any try
buildThrows(files) ==
    \E i \in 1..Len(SourceFiles) : parseContentThrows(files, SourceFiles[i])

NotBuilt == [status |-> "none", graph |-> EmptyGraph, files |-> <<>>]

Build ==
    /\ buildResult' = IF buildThrows(sources)
                      THEN [status |-> "threw", graph |-> EmptyGraph, files |-> sources]
                      ELSE [status |-> "returned", graph |-> build(sources),
                            files |-> sources]
    /\ UNCHANGED <<notBuild, sources, writes>>

WriteSource(filePath, content) ==
    /\ writes < MaxWrites
    /\ sources[filePath] # content
    /\ sources' = [sources EXCEPT ![filePath] = content]
    /\ writes' = writes + 1
    /\ UNCHANGED <<notBuild, buildResult>>

BuildIdle ==
    /\ sources = [filePath \in {"a", "b"} |-> 1]
    /\ buildResult = NotBuilt
    /\ writes = 0

(***************************************************************************)
(* clampTokenBudget over the numbers a caller may pass                     *)
(***************************************************************************)
MaxDenominator == 3
BudgetNumerators ==
    {-7, 0, 4000, 5999, 6000, 6001, 9000, 11999, 12000, 12001, 12002, 17999, 18001,
     23999, 24001, 24002, 35999, 36001, 36002, 50000}
RequestedTokens ==
    {Finite(num, den) : num \in BudgetNumerators, den \in 1..MaxDenominator}
    \cup {NaN, Infinity, NegInfinity}

NoBudget == [clamped |-> FALSE, budget |-> 0]

\* const tokenBudget = this.clampTokenBudget(maxTokens)
ClampTokenBudget ==
    /\ ~clampedBudget.clamped
    /\ clampedBudget' = [clamped |-> TRUE, budget |-> clampTokenBudget(requestedTokens)]
    /\ UNCHANGED <<notBudget, requestedTokens>>

BudgetIdle == requestedTokens = Finite(6000, 1) /\ clampedBudget = NoBudget

(***************************************************************************)
(* Bm25Index.  A text is a sequence of characters and a term a sequence of *)
(* lower-case characters.  A score is a JavaScript number; it is kept in   *)
(* units of 1/Scale, the logarithm summed from its series.                 *)
(***************************************************************************)
MaxBmOps == 4
Scale == 100000
DocIds == {"d1", "d2"}
BmTexts ==
    {<<"A">>, <<"a", "-", "b">>, <<"b", " ", "B">>, <<"-">>, <<"a", "_">>}
BmQueries == {<<"a">>, <<"B", " ", "a">>, <<" ">>, <<"a", "_">>}
TopKs == {1, 2}

toLowerCase(ch) == IF ch = "A" THEN "a" ELSE IF ch = "B" THEN "b" ELSE ch
\* a character the separator /[^a-z0-9_]+/i does not match
isWordChar(ch) == ch \in {"a", "b", "A", "B", "_"}

RECURSIVE split(_, _)
\* split(/[^a-z0-9_]+/i).filter(Boolean): the maximal runs of word characters
split(chars, current) ==
    IF chars = <<>> THEN (IF current = <<>> THEN <<>> ELSE <<current>>)
    ELSE IF isWordChar(Head(chars))
         THEN split(Tail(chars), Append(current, Head(chars)))
         ELSE (IF current = <<>> THEN <<>> ELSE <<current>>) \o split(Tail(chars), <<>>)

tokenize(text) == split([i \in 1..Len(text) |-> toLowerCase(text[i])], <<>>)

\* terms.set(token, (terms.get(token) ?? 0) + 1) over the tokens
countTerms(tokenList) ==
    [t \in {tokenList[i] : i \in 1..Len(tokenList)} |->
        Cardinality({i \in 1..Len(tokenList) : tokenList[i] = t})]

EmptyBm25Index == [documents |-> <<>>, documentFrequency |-> EmptyMap, totalDocumentLength |-> 0]

hasDocument(index, id) == \E i \in 1..Len(index.documents) : index.documents[i].id = id
getDocument(index, id) ==
    index.documents[CHOOSE i \in 1..Len(index.documents) : index.documents[i].id = id]

\* a removeDocument that leaves the document frequencies as they were
removeDocumentKeepsFrequency(index, id) ==
    IF ~hasDocument(index, id) THEN index
    ELSE [index EXCEPT
             !.documents = SelectSeq(index.documents, LAMBDA d : d.id # id),
             !.totalDocumentLength = index.totalDocumentLength - getDocument(index, id).length]

removeDocument(index, id) ==
    IF ~hasDocument(index, id) THEN index
    ELSE LET existing == getDocument(index, id)
             frequency == index.documentFrequency
             counted == DOMAIN existing.terms \cap DOMAIN frequency
             deleted == {t \in counted : frequency[t] <= 1}
         IN  [documents |-> SelectSeq(index.documents, LAMBDA d : d.id # id),
              documentFrequency |->
                  [t \in DOMAIN frequency \ deleted |->
                      IF t \in counted THEN frequency[t] - 1 ELSE frequency[t]],
              totalDocumentLength |-> index.totalDocumentLength - existing.length]

\* the part of addDocument after the prior entry is gone
indexDocument(index, id, tokenList) ==
    LET terms == countTerms(tokenList)
        frequency == index.documentFrequency
    IN  [documents |->
             Append(index.documents,
                    [id |-> id, terms |-> terms, length |-> Len(tokenList)]),
         documentFrequency |->
             [t \in DOMAIN frequency \cup DOMAIN terms |->
                 (IF Has(frequency, t) THEN frequency[t] ELSE 0)
                 + (IF Has(terms, t) THEN 1 ELSE 0)],
         totalDocumentLength |-> index.totalDocumentLength + Len(tokenList)]

addDocument(index, id, text) ==
    indexDocument(IF hasDocument(index, id) THEN removeDocument(index, id) ELSE index,
                  id, tokenize(text))

RECURSIVE atanhSeries(_, _, _, _)
\* the sum over k of z^(2k+1) / (2k+1), z = num / den in [0, 1), power = z^(2k+1)
atanhSeries(power, num, den, k) ==
    IF power = 0 THEN 0
    ELSE power \div (2 * k + 1)
         + atanhSeries((power * num * num) \div (den * den), num, den, k + 1)

\* Math.log(p / q) for positive p and q: 2 atanh((p - q) / (p + q))
mathLog(p, q) ==
    IF p >= q THEN 2 * atanhSeries((Scale * (p - q)) \div (p + q), p - q, p + q, 0)
    ELSE -(2 * atanhSeries((Scale * (q - p)) \div (p + q), q - p, p + q, 0))

\* Math.log(1 + (docCount - df + 0.5) / (df + 0.5))
idfOf(docCount, df) == mathLog(2 * docCount + 2, 2 * df + 1)

\* idf * (tf * (k1 + 1) / (tf + k1 * (1 - b + b * (length / average)))) with k1 = 1.5,
\* b = 0.75 and average = avgNum / avgDen
termScore(idf, tf, length, avgNum, avgDen) ==
    (idf * 20 * tf * avgNum) \div (8 * tf * avgNum + 3 * avgNum + 9 * length * avgDen)

RECURSIVE scoreOf(_, _, _, _, _, _)
\* the loop over the query tokens for one document
scoreOf(doc, tokenList, frequency, docCount, avgNum, avgDen) ==
    IF tokenList = <<>> THEN 0
    ELSE LET token == Head(tokenList)
             rest == scoreOf(doc, Tail(tokenList), frequency, docCount, avgNum, avgDen)
         IN  IF ~Has(doc.terms, token) THEN rest
             ELSE termScore(idfOf(docCount, IF Has(frequency, token) THEN frequency[token]
                                            ELSE 0),
                            doc.terms[token], doc.length, avgNum, avgDen) + rest

\* search after tokenize: averageDocLength || 1 is total / docCount unless that is 0
searchTokens(index, tokenList, topK) ==
    IF tokenList = <<>> THEN <<>>
    ELSE LET docCount == Len(index.documents)
             plain == docCount > 0 /\ index.totalDocumentLength # 0
             avgNum == IF plain THEN index.totalDocumentLength ELSE 1
             avgDen == IF plain THEN docCount ELSE 1
             scores == [i \in 1..docCount |->
                           [id |-> index.documents[i].id,
                            score |-> scoreOf(index.documents[i], tokenList,
                                              index.documentFrequency, docCount,
                                              avgNum, avgDen)]]
         IN  slice(sortByScore(SelectSeq(scores, LAMBDA hit : hit.score > 0)), 0, topK)

bm25Search(index, query, topK) == searchTokens(index, tokenize(query), topK)

bm25Index ==
    [documents |-> documents, documentFrequency |-> documentFrequency,
     totalDocumentLength |-> totalDocumentLength]

BmCalled(op, replaced, hits) == [op |-> op, replaced |-> replaced, hits |-> hits]

BmSet(index) ==
    /\ documents' = index.documents
    /\ documentFrequency' = index.documentFrequency
    /\ totalDocumentLength' = index.totalDocumentLength

AddDocument(id, text) ==
    /\ bmSteps < MaxBmOps
    /\ BmSet(addDocument(bm25Index, id, text))
    /\ latestText' = MapSet(latestText, id, text)
    /\ bmCall' = BmCalled("addDocument", hasDocument(bm25Index, id), <<>>)
    /\ bmSteps' = bmSteps + 1
    /\ UNCHANGED notBm25

RemoveDocument(id) ==
    /\ bmSteps < MaxBmOps
    /\ BmSet(removeDocument(bm25Index, id))
    /\ latestText' = MapDelete(latestText, id)
    /\ bmCall' = BmCalled("removeDocument", hasDocument(bm25Index, id), <<>>)
    /\ bmSteps' = bmSteps + 1
    /\ UNCHANGED notBm25

\* reset(): the two Maps cleared, the total length 0
ResetIndex ==
    /\ bmSteps < MaxBmOps
    /\ BmSet(EmptyBm25Index)
    /\ latestText' = EmptyMap
    /\ bmCall' = BmCalled("reset", FALSE, <<>>)
    /\ bmSteps' = bmSteps + 1
    /\ UNCHANGED notBm25

Bm25Search(query, topK) ==
    /\ bmCall' = BmCalled("search", FALSE, bm25Search(bm25Index, query, topK))
    /\ UNCHANGED <<notBm25, documents, documentFrequency, totalDocumentLength, latestText,
                   bmSteps>>

Bm25Idle ==
    /\ documents = <<>>
    /\ documentFrequency = EmptyMap
    /\ totalDocumentLength = 0
    /\ latestText = EmptyMap
    /\ bmCall = BmCalled("new", FALSE, <<>>)
    /\ bmSteps = 0

(***************************************************************************)
(* EmbeddingCache.  One cache object of a session over cache.json; every   *)
(* await of prepare() and flush() is a point where other calls run.        *)
(***************************************************************************)
MaxCacheOps == 4
CacheTexts == {"t1", "t2"}
Embeddings == {<<1>>, <<2>>}

\* crypto.createHash('sha256').update(content).digest('hex'): one digest per text
hash(content) == <<"sha256", content>>

CacheRecord(text, embedding, now) ==
    [hash |-> hash(text), embedding |-> embedding, updatedAt |-> now]

NoFile == [exists |-> FALSE, content |-> {}]

\* writeJsonFile(cachePath, array): cache.json holds the array
writeJsonFile(array) == [exists |-> TRUE, content |-> array]

\* readJsonFile(cachePath): the array in cache.json, nothing when there is no file
readJsonFile(file) == IF file.exists THEN file.content ELSE {}

\* for (const record of existing) this.records.set(record.hash, record)
loadRecords(map, existing) ==
    [h \in DOMAIN map \cup {entry.hash : entry \in existing} |->
        IF \E entry \in existing : entry.hash = h
        THEN CHOOSE entry \in existing : entry.hash = h
        ELSE map[h]]

\* this.records.get(hash)?.embedding, <<>> for undefined
get(map, text) == IF Has(map, hash(text)) THEN map[hash(text)].embedding ELSE <<>>

\* Array.from(this.records.values())
recordValues(map) == {map[h] : h \in DOMAIN map}

\* a later session: new EmbeddingCache(projectRoot), await prepare(), get(text)
reloadedGet(file, text) == get(loadRecords(EmptyMap, readJsonFile(file)), text)

\* a flush() call that returns settles the texts set before it was called
Settle(covers) == settled' = settled \cup covers

Prepare ==
    /\ cacheSteps < MaxCacheOps
    /\ ~loaded
    /\ loaded' = TRUE
    /\ prepareCall' = TRUE
    /\ cacheSteps' = cacheSteps + 1
    /\ UNCHANGED <<notCache, records, cacheDirty, cacheFile, flushCalls, lastSet, settled>>

\* prepare() after its await
PrepareRead ==
    /\ prepareCall
    /\ prepareCall' = FALSE
    /\ records' = loadRecords(records, readJsonFile(cacheFile))
    /\ UNCHANGED <<notCache, cacheDirty, loaded, cacheFile, flushCalls, lastSet, settled,
                   cacheSteps>>

CacheSet(text, embedding) ==
    /\ cacheSteps < MaxCacheOps
    /\ records' = MapSet(records, hash(text), CacheRecord(text, embedding, cacheSteps))
    /\ cacheDirty' = TRUE
    /\ lastSet' = MapSet(lastSet, text, embedding)
    /\ settled' = settled \ {text}
    /\ flushCalls' = [c \in DOMAIN flushCalls |->
                         [flushCalls[c] EXCEPT !.covers = @ \ {text}]]
    /\ cacheSteps' = cacheSteps + 1
    /\ UNCHANGED <<notCache, loaded, cacheFile, prepareCall>>

CacheClear ==
    /\ cacheSteps < MaxCacheOps
    /\ records' = EmptyMap
    /\ cacheDirty' = TRUE
    /\ lastSet' = EmptyMap
    /\ settled' = {}
    /\ flushCalls' = [c \in DOMAIN flushCalls |-> [flushCalls[c] EXCEPT !.covers = {}]]
    /\ cacheSteps' = cacheSteps + 1
    /\ UNCHANGED <<notCache, loaded, cacheFile, prepareCall>>

\* flush() up to its first await: returns at once when the cache is not dirty
Flush ==
    /\ cacheSteps < MaxCacheOps
    /\ IF ~cacheDirty
       THEN Settle(DOMAIN lastSet) /\ UNCHANGED flushCalls
       ELSE /\ flushCalls' = MapSet(flushCalls, cacheSteps,
                                    [pc |-> "ensureDir", array |-> {},
                                     covers |-> DOMAIN lastSet])
            /\ UNCHANGED settled
    /\ cacheSteps' = cacheSteps + 1
    /\ UNCHANGED <<notCache, records, cacheDirty, loaded, cacheFile, prepareCall, lastSet>>

\* flush() after await ensureDir: the records are read and writeJsonFile is called
FlushWrite(call) ==
    /\ Has(flushCalls, call)
    /\ flushCalls[call].pc = "ensureDir"
    /\ flushCalls' = [flushCalls EXCEPT ![call].pc = "writeJsonFile",
                                        ![call].array = recordValues(records)]
    /\ UNCHANGED <<notCache, records, cacheDirty, loaded, cacheFile, prepareCall, lastSet,
                   settled, cacheSteps>>

\* flush() after await writeJsonFile: the file is written, this.dirty = false
FlushDone(call) ==
    /\ Has(flushCalls, call)
    /\ flushCalls[call].pc = "writeJsonFile"
    /\ cacheFile' = writeJsonFile(flushCalls[call].array)
    /\ cacheDirty' = FALSE
    /\ Settle(flushCalls[call].covers)
    /\ flushCalls' = MapDelete(flushCalls, call)
    /\ UNCHANGED <<notCache, records, loaded, prepareCall, lastSet, cacheSteps>>

CacheIdle ==
    /\ records = EmptyMap
    /\ cacheDirty = FALSE
    /\ loaded = FALSE
    /\ cacheFile = NoFile
    /\ flushCalls = EmptyMap
    /\ prepareCall = FALSE
    /\ lastSet = EmptyMap
    /\ settled = {}
    /\ cacheSteps = 0

(***************************************************************************)
(* Specifications                                                          *)
(***************************************************************************)
GraphInit == GraphIdle /\ OverlayIdle /\ MgrIdle /\ PipeIdle /\ EvalIdle /\ RetrIdle /\ AnnIdle /\ MemIdle /\ BuildIdle /\ BudgetIdle /\ Bm25Idle /\ CacheIdle

GraphNext ==
    \/ AddNode
    \/ UpsertNode
    \/ AddEdge
    \/ UpsertEdge
    \/ RemoveNode
    \/ RemoveNodesByPath

GraphSpec == GraphInit /\ [][GraphNext]_vars

OverlayInit ==
    /\ GraphIdle /\ MgrIdle /\ PipeIdle /\ EvalIdle /\ RetrIdle /\ AnnIdle /\ MemIdle /\ BuildIdle /\ BudgetIdle /\ Bm25Idle /\ CacheIdle
    /\ base \in OverlayBases /\ ops = <<>> /\ applied = NotApplied

OverlayNext ==
    \/ AddOperation
    \/ Apply

OverlaySpec == OverlayInit /\ [][OverlayNext]_vars

MgrInit == GraphIdle /\ OverlayIdle /\ MgrIdle /\ PipeIdle /\ EvalIdle /\ RetrIdle /\ AnnIdle /\ MemIdle /\ BuildIdle /\ BudgetIdle /\ Bm25Idle /\ CacheIdle

MgrNext ==
    \/ \E forceRebuild \in BOOLEAN : Initialize(forceRebuild)
    \/ Rebuild
    \/ GetGraph
    \/ \E filePath \in MgrPaths : RecordFileModification(filePath)
    \/ MergeOverlay
    \/ DiscardOverlay
    \/ ClearStore
    \/ ApplyPending
    \/ MutateApplied
    \/ EditSource

MgrSpec == MgrInit /\ [][MgrNext]_vars

PipeInit ==
    /\ GraphIdle /\ OverlayIdle /\ MgrIdle /\ EvalIdle /\ RetrIdle /\ AnnIdle /\ MemIdle /\ BuildIdle /\ BudgetIdle /\ Bm25Idle /\ CacheIdle
    /\ config \in PipelineConfigs
    /\ state = InitialState(config)
    /\ iteration = 0
    /\ pc = "graph.load"
    /\ trace = <<>>
    /\ components = "none"
    /\ context = NullValue
    /\ resolution = NullValue
    /\ evaluation = NullDecision
    /\ actionsTaken = <<>>
    /\ outcome = "running"
    /\ result = NoResult

PipeNext ==
    \/ GraphLoad
    \/ ComponentsBuild
    \/ RetrieverInitialize
    \/ TargetResolve
    \/ ContextBuild
    \/ AgentEvaluate

\* every stage call settles: the event loop then resumes run()
PipeSpec == PipeInit /\ [][PipeNext]_vars /\ WF_vars(PipeNext)

EvalInit ==
    /\ GraphIdle /\ OverlayIdle /\ MgrIdle /\ PipeIdle /\ RetrIdle /\ AnnIdle /\ MemIdle /\ BuildIdle /\ BudgetIdle /\ Bm25Idle /\ CacheIdle
    /\ agentConfig \in AgentConfigs
    /\ sample \in Samples
    /\ decision = NoDecision

EvalNext ==
    \/ Evaluate

EvalSpec == EvalInit /\ [][EvalNext]_vars

RetrInit ==
    /\ GraphIdle /\ OverlayIdle /\ MgrIdle /\ PipeIdle /\ EvalIdle /\ AnnIdle /\ MemIdle /\ BuildIdle /\ BudgetIdle /\ Bm25Idle /\ CacheIdle
    /\ request \in Requests
    /\ retrGraph \in RetrGraphs
    /\ dependencyContext = NoContext

RetrNext ==
    \/ BuildContextForChange

RetrSpec == RetrInit /\ [][RetrNext]_vars

AnnInit ==
    /\ GraphIdle /\ OverlayIdle /\ MgrIdle /\ PipeIdle /\ EvalIdle /\ RetrIdle /\ MemIdle /\ BuildIdle /\ BudgetIdle /\ Bm25Idle /\ CacheIdle
    /\ annIndex = EmptyIndex
    /\ maxConnections \in ConnectionLimits
    /\ annCall = AnnCalled("new", "", <<>>, FALSE, <<>>)
    /\ annSteps = 0

AnnNext ==
    \/ \E id \in AnnIds, level \in 0..MaxAnnLevel :
           \E vector \in {VectorOf(id)} \cup OtherVectors : Add(id, vector, level)
    \/ \E id \in AnnIds : Remove(id)
    \/ \E query \in AnnQueries : Search(query)
    \/ Reset

AnnSpec == AnnInit /\ [][AnnNext]_vars

StoreInit ==
    /\ GraphIdle /\ OverlayIdle /\ MgrIdle /\ PipeIdle /\ EvalIdle /\ RetrIdle /\ AnnIdle
    /\ MemIdle /\ BuildIdle /\ BudgetIdle /\ Bm25Idle /\ CacheIdle

StoreNext ==
    \/ \E holder \in Holders : Save(holder)
    \/ Load
    \/ Clear
    \/ \E holder \in Holders, id \in StoreNodeIds : HeldUpsertNode(holder, id)
    \/ \E holder \in Holders, edge \in StoreEdgePool : HeldUpsertEdge(holder, edge)
    \/ \E holder \in Holders, id \in StoreNodeIds : HeldRemoveNode(holder, id)
    \/ \E holder \in Holders, id \in StoreNodeIds, category \in Categories :
           TagNode(holder, id, category)
    \/ \E holder \in Holders, id \in StoreNodeIds : EmbedNode(holder, id)

StoreSpec == StoreInit /\ [][StoreNext]_vars

BuildInit ==
    /\ GraphIdle /\ OverlayIdle /\ MgrIdle /\ PipeIdle /\ EvalIdle /\ RetrIdle /\ AnnIdle
    /\ MemIdle /\ BudgetIdle /\ Bm25Idle /\ CacheIdle
    /\ sources \in [{"a", "b"} -> Contents]
    /\ buildResult = NotBuilt
    /\ writes = 0

BuildNext ==
    \/ Build
    \/ \E filePath \in {"a", "b"}, content \in Contents : WriteSource(filePath, content)

BuildSpec == BuildInit /\ [][BuildNext]_vars

BudgetInit ==
    /\ GraphIdle /\ OverlayIdle /\ MgrIdle /\ PipeIdle /\ EvalIdle /\ RetrIdle /\ AnnIdle
    /\ MemIdle /\ BuildIdle /\ Bm25Idle /\ CacheIdle
    /\ requestedTokens \in RequestedTokens
    /\ clampedBudget = NoBudget

BudgetNext ==
    \/ ClampTokenBudget

BudgetSpec == BudgetInit /\ [][BudgetNext]_vars

Bm25Init ==
    /\ GraphIdle /\ OverlayIdle /\ MgrIdle /\ PipeIdle /\ EvalIdle /\ RetrIdle /\ AnnIdle
    /\ MemIdle /\ BuildIdle /\ BudgetIdle
    /\ Bm25Idle /\ CacheIdle

Bm25Next ==
    \/ \E id \in DocIds, text \in BmTexts : AddDocument(id, text)
    \/ \E id \in DocIds : RemoveDocument(id)
    \/ ResetIndex
    \/ \E query \in BmQueries, topK \in TopKs : Bm25Search(query, topK)

Bm25Spec == Bm25Init /\ [][Bm25Next]_vars

CacheInit ==
    /\ GraphIdle /\ OverlayIdle /\ MgrIdle /\ PipeIdle /\ EvalIdle /\ RetrIdle /\ AnnIdle
    /\ MemIdle /\ BuildIdle /\ BudgetIdle /\ Bm25Idle
    /\ CacheIdle

CacheNext ==
    \/ Prepare
    \/ PrepareRead
    \/ \E text \in CacheTexts, embedding \in Embeddings : CacheSet(text, embedding)
    \/ CacheClear
    \/ Flush
    \/ \E call \in 0..MaxCacheOps : FlushWrite(call)
    \/ \E call \in 0..MaxCacheOps : FlushDone(call)

CacheSpec == CacheInit /\ [][CacheNext]_vars

(***************************************************************************)
(* Claims about DiffOverlay.apply (OverlaySpec)                            *)
(***************************************************************************)
AppliedOps == SubSeq(ops, 1, applied.n)

SetsNode(op, id) == op.type \in {"add", "modify"} /\ op.hasNode /\ op.node.id = id
RemovesNode(op, id) == op.type = "remove" /\ op.nodeId = id

\* index of the last operation of the log that sets or removes node id; 0 when none does
LastNodeOp(operations, id) ==
    LET S == {i \in 1..Len(operations) :
                SetsNode(operations[i], id) \/ RemovesNode(operations[i], id)}
    IN  IF S = {} THEN 0 ELSE CHOOSE i \in S : \A j \in S : j <= i

\* the node ids present after the log: the last operation on an id decides
ExpectedNodeIds(graph, operations) ==
    {id \in OvNodeIds :
        LET i == LastNodeOp(operations, id)
        IN  IF i = 0 THEN Has(graph.nodes, id) ELSE SetsNode(operations[i], id)}

\* some add-edge operation names an endpoint that is absent at its point of the log
DanglingAddEdge(graph, operations) ==
    \E i \in 1..Len(operations) :
        /\ operations[i].type = "add" /\ ~operations[i].hasNode /\ operations[i].hasEdge
        /\ LET present == ExpectedNodeIds(graph, SubSeq(operations, 1, i - 1))
           IN  operations[i].edge.from \notin present \/ operations[i].edge.to \notin present

\* C1 as stated: apply returns, for any operation list, a graph holding every node of
\* the base no operation removes and every node an add operation carries, with both
\* endpoints of every edge present.
C1_AsStated ==
    applied.status # "none" =>
        /\ applied.status = "ok"
        /\ \A id \in DOMAIN base.nodes :
               (\A i \in 1..applied.n : ~RemovesNode(ops[i], id))
                   => Has(applied.graph.nodes, id)
        /\ \A i \in 1..applied.n :
               (ops[i].type = "add" /\ ops[i].hasNode)
                   => Has(applied.graph.nodes, ops[i].node.id)
        /\ EdgeIntegrity(applied.graph)

\* C1 (amended): apply raises exactly when an add-edge operation names an endpoint
\* absent at that point of the log; otherwise the returned graph holds exactly the
\* nodes of the base and of the add/modify operations whose last node operation is
\* not a remove, each with the record its last add/modify carries, and every edge
\* of it has both endpoints in the node table.
C1_ApplyFoldsTheLog ==
    /\ applied.status = "threw" <=>
           (applied.status # "none" /\ DanglingAddEdge(base, AppliedOps))
    /\ applied.status = "ok" =>
           /\ DOMAIN applied.graph.nodes = ExpectedNodeIds(base, AppliedOps)
           /\ \A id \in DOMAIN applied.graph.nodes :
                  LET i == LastNodeOp(AppliedOps, id)
                  IN  applied.graph.nodes[id] =
                          IF i = 0 THEN base.nodes[id] ELSE ops[i].node
           /\ EdgeIntegrity(applied.graph)

\* apply returned after removing a base node another node had an edge to and then
\* adding that node again: the node is back, the edge is not
C1_Witness ==
    /\ applied.status = "ok"
    /\ applied.n = 2
    /\ ops[1].type = "remove" /\ Has(base.nodes, ops[1].nodeId)
    /\ \E e \in getAllEdges(base) : e.to = ops[1].nodeId /\ e.from # e.to
    /\ ops[2].type = "add" /\ ops[2].hasNode /\ ops[2].node.id = ops[1].nodeId
    /\ Has(applied.graph.nodes, ops[1].nodeId)
    /\ applied.graph.edges = EmptyMap

(***************************************************************************)
(* Claims about CodeGraph (GraphSpec)                                      *)
(***************************************************************************)
\* C2: after any sequence of CodeGraph calls every edge has both endpoints in the
\* node table; a call that throws (an edge with an absent endpoint) leaves the graph
\* as it was; and after removeNode(id) no edge has id as its from or its to.
C2_EdgeEndpointsExist ==
    /\ [](EdgeIntegrity(cg))
    /\ [](lastCall.op = "removeNode" =>
              \A e \in getAllEdges(cg) : e.from # lastCall.arg /\ e.to # lastCall.arg)
    /\ [][lastCall'.threw => cg' = cg]_vars
    /\ [][(lastCall'.op \in {"addEdge", "upsertEdge"} /\ ~lastCall'.threw)
              => Has(cg'.edges, lastCall'.arg)]_vars

\* removeNode has dropped an incoming edge of the removed node: its source keeps an
\* emptied outgoing set while another edge survives
C2_Witness ==
    /\ lastCall.op = "removeNode"
    /\ ~Has(cg.nodes, lastCall.arg)
    /\ cg.edges # EmptyMap
    /\ \E n \in DOMAIN cg.edgesByNode : cg.edgesByNode[n] = {}

(***************************************************************************)
(* Claims about GraphManager (MgrSpec)                                     *)
(***************************************************************************)
HooksOf(log, id) == SelectSeq(log, LAMBDA h : h.id = id)

\* created, then one or more updated, then at most one of committed or discarded
LifecycleOrder(hooks) ==
    hooks # <<>> =>
        /\ hooks[1].hook = "onOverlayCreated"
        /\ Len(hooks) >= 2
        /\ \A i \in 2..Len(hooks) :
               \/ hooks[i].hook = "onOverlayUpdated"
               \/ /\ i = Len(hooks)
                  /\ i > 2
                  /\ hooks[i].hook \in {"onOverlayCommitted", "onOverlayDiscarded"}

RecordStep == \E filePath \in MgrPaths : RecordFileModification(filePath)

\* the record finds something to write: the file parses or the base has nodes at the path
ProducesOperations(filePath) ==
    \/ ~buildFileSnapshot(tree, filePath).isNull
    \/ getNodesByPath(heap[baseGraph].g, filePath) # <<>>

HookOrderHolds ==
    /\ [](\A id \in 1..nextOverlayId : LifecycleOrder(HooksOf(hookLog, id)))
    /\ [](\A i \in 1..Len(hookLog) : hookLog[i].id \in 1..nextOverlayId)
    /\ [][RecordStep /\ baseGraph # Null =>
              hookLog' = hookLog
                  \o (IF overlay.live THEN <<>> ELSE <<Hook("onOverlayCreated", overlay'.id)>>)
                  \o <<Hook("onOverlayUpdated", overlay'.id)>>]_vars
    /\ [][RecordStep /\ baseGraph # Null /\ ~overlay.live =>
              overlay'.id \notin {hookLog[i].id : i \in 1..Len(hookLog)}]_vars
    /\ [][hookLog' # hookLog => (RecordStep \/ MergeOverlay \/ DiscardOverlay \/ ClearStore)]_vars

PendingFlagHolds ==
    /\ [][\A filePath \in MgrPaths :
              (RecordFileModification(filePath) /\ baseGraph # Null
                  /\ ProducesOperations(filePath)) => hasPendingOverlay']_vars
    /\ [][((MergeOverlay \/ DiscardOverlay) /\ returned'.status = "ok")
              => ~hasPendingOverlay']_vars

BaseUnchanged ==
    /\ baseGraph' = baseGraph
    /\ baseGraph # Null => heap'[baseGraph'].g = heap[baseGraph].g

\* C4: only initialize, rebuild, mergeOverlay and clearStore replace the base graph;
\* recordFileModification, getGraph, discardOverlay, a client's overlay.apply(base) and
\* a later mutation of the graph apply returned leave getBaseGraph() the same object
\* with the same nodes, edges, path index and outgoing-edge index.
C4_BaseImmutableBetweenRebuilds ==
    /\ [][(RecordStep \/ GetGraph \/ ApplyPending \/ MutateApplied \/ DiscardOverlay
              \/ EditSource) => BaseUnchanged]_vars
    /\ [][~BaseUnchanged =>
              \/ \E forceRebuild \in BOOLEAN : Initialize(forceRebuild)
              \/ Rebuild
              \/ MergeOverlay
              \/ ClearStore]_vars
    /\ [](mgrCall.op \in {"apply", "mutate"} /\ returned.status = "ok"
              => returned.ref \notin {baseGraph, overlayCache})

\* a client removed b's nodes from the graph apply returned; the base still has them
C4_Witness ==
    /\ mgrCall.op = "mutate"
    /\ hasPendingOverlay
    /\ returned.ref # baseGraph
    /\ ~Has(heap[returned.ref].g.nodesByPath, "b")
    /\ Has(heap[baseGraph].g.nodesByPath, "b")
    /\ Len(hookLog) >= 3

\* C5: getGraph() on an initialized manager returns the base graph object itself when
\* no overlay is live or the overlay is empty, and otherwise ends as
\* overlay.apply(base) ends for the current overlay and base: with a graph equal to
\* its result, which is not the base object, or raising as it raises; whatever is
\* memoised equals that result; and a getGraph() that follows a getGraph() returns
\* the same object.
C5_GetGraphIsApplyOfBase ==
    /\ [](baseGraph # Null =>
            LET r == getGraph(heap, baseGraph, overlay, overlayCache, overlayCacheDirty)
                a == apply(overlay.operations, heap[baseGraph].g)
            IN  IF ~hasPendingOverlay THEN r.result = Returned(baseGraph)
                ELSE IF a.threw THEN r.result = Threw
                ELSE /\ r.result.status = "ok"
                     /\ r.result.ref # baseGraph
                     /\ r.heap[r.result.ref].g = a.graph)
    /\ [](mgrCall.op \in {"getGraph", "recordFileModification"} /\ baseGraph # Null =>
            LET a == apply(overlay.operations, heap[baseGraph].g)
            IN  IF ~hasPendingOverlay THEN returned = Returned(baseGraph)
                ELSE IF a.threw THEN returned = Threw
                ELSE returned.status = "ok" /\ heap[returned.ref].g = a.graph)
    /\ [][(GetGraph /\ mgrCall.op = "getGraph") => returned' = returned]_vars

\* getGraph() was called twice on an overlay recorded for b after an edit: the merged
\* graph it returned is not the base and holds b's new function
C5_Witness ==
    /\ mgrCall.op = "getGraph"
    /\ hasPendingOverlay
    /\ ~overlayCacheDirty
    /\ returned = Returned(overlayCache)
    /\ overlayCache # baseGraph
    /\ Has(heap[overlayCache].g.nodes, createSymbolNodeId("b", 2))
    /\ ~Has(heap[baseGraph].g.nodes, createSymbolNodeId("b", 2))

(***************************************************************************)
(* Claims about LangGraphPipeline.run (PipeSpec)                           *)
(***************************************************************************)
Stages == <<"components.build", "retriever.initialize", "target.resolve",
            "context.build", "agent.evaluate">>

\* graph.load and then the five stages, iterations times over, all ok
OkEntries(iterations) ==
    [i \in 1..(1 + 5 * iterations) |->
        Entry(IF i = 1 THEN "graph.load" ELSE Stages[((i - 2) % 5) + 1], "ok", "")]

NoStageFailed == \A i \in 1..Len(trace) : trace[i].status = "ok"

\* C6: in a run in which no stage fails the trace is graph.load once and then, for
\* each executed iteration, components.build, retriever.initialize, target.resolve,
\* context.build, agent.evaluate in that order, all ok: 1 + 5 x iterations entries
\* when run() returns; and a first evaluation that passes ends the run with
\* iterations = 1.
C6_TraceOrder ==
    /\ [](NoStageFailed =>
              /\ Len(trace) <= 1 + 5 * iteration
              /\ trace = SubSeq(OkEntries(iteration), 1, Len(trace)))
    /\ [](outcome = "returned" =>
              /\ result.trace = OkEntries(result.iterations)
              /\ Len(result.trace) = 1 + 5 * result.iterations)
    /\ [][(pc = "agent.evaluate" /\ iteration = 1 /\ outcome' # "rejected"
              /\ ~evaluation'.isNull /\ evaluation'.pass)
              => (outcome' = "returned" /\ result'.iterations = 1)]_vars

\* a run of two iterations returned: eleven entries
C6_Witness ==
    /\ outcome = "returned"
    /\ result.iterations = 2
    /\ Len(result.trace) = 11
    /\ result.evaluation.pass

\* C7: every run ends (returns or rejects) and never counts more than maxIterations
\* iterations; an iteration starts only at the start of the run or after an
\* evaluation that failed with a non-empty action list; a run that returns after fewer
\* than maxIterations iterations ended on an evaluation that passed or had no actions;
\* and with maxIterations = 0 the result has iterations 0 and null context, resolution
\* and evaluation.
C7_BoundedIterations ==
    /\ <>(outcome # "running")
    /\ [](iteration <= config.maxIterations)
    /\ [][iteration' # iteration =>
              /\ iteration' = iteration + 1
              /\ \/ pc = "graph.load"
                 \/ /\ pc = "agent.evaluate"
                    /\ ~evaluation'.isNull
                    /\ ~evaluation'.pass
                    /\ evaluation'.actions # <<>>]_vars
    /\ [](outcome = "returned" =>
              /\ result.iterations = iteration
              /\ result.iterations # config.maxIterations =>
                     /\ ~result.evaluation.isNull
                     /\ result.evaluation.pass \/ result.evaluation.actions = <<>>)
    /\ []((outcome = "returned" /\ config.maxIterations = 0) =>
              /\ result.iterations = 0
              /\ result.context.isNull
              /\ result.resolution.isNull
              /\ result.evaluation.isNull)
    /\ [][outcome # "running" => UNCHANGED vars]_vars

\* every evaluation failed with actions to take: the run returned after maxIterations
C7_Witness ==
    /\ outcome = "returned"
    /\ config.maxIterations = 2
    /\ result.iterations = 2
    /\ ~result.evaluation.pass
    /\ result.evaluation.actions # <<>>

LastEntryIsError == trace # <<>> /\ trace[Len(trace)].status = "error"

\* C8 as stated: when a stage raises, no later stage runs, the last trace entry is that
\* stage with status error and the message, and run() returns the partial result: the
\* trace and the context, resolution and evaluation of the stages that completed.
C8_AsStated ==
    LastEntryIsError =>
        /\ pc = "done"
        /\ trace[Len(trace)].error # ""
        /\ outcome = "returned"
        /\ result.trace = trace
        /\ result.context = context
        /\ result.resolution = resolution
        /\ result.evaluation = evaluation

\* C9 as stated: for every configuration tokenBudget, walkDepth, relatedLimit and
\* breadthLimit never decrease, tokenBudget never exceeds 12000, walkDepth never
\* exceeds maxWalkDepth, breadthLimit never exceeds maxBreadthLimit, and
\* useCrossEncoder starts false and never goes back from true to false.
C9_AsStated ==
    /\ [][/\ state'.tokenBudget >= state.tokenBudget
          /\ state'.walkDepth >= state.walkDepth
          /\ state'.relatedLimit >= state.relatedLimit
          /\ state'.breadthLimit >= state.breadthLimit
          /\ state.useCrossEncoder => state'.useCrossEncoder]_vars
    /\ [](state.tokenBudget <= TokenBudgetCap)
    /\ [](state.walkDepth <= config.maxWalkDepth)
    /\ [](state.breadthLimit <= config.maxBreadthLimit)
    /\ [](trace = <<>> => ~state.useCrossEncoder)

(***************************************************************************)
(* Claims about EvaluationAgent.evaluate (EvalSpec)                        *)
(***************************************************************************)
Contains(actions, action) == \E i \in 1..Len(actions) : actions[i] = action

EffectiveCoverageThreshold ==
    IF agentConfig.hasCoverageThreshold THEN agentConfig.coverageThreshold
    ELSE Ratio(17, 20)

\* C10: the action list evaluate returns has no duplicates and holds exactly:
\* enable_cross_encoder iff precision < precisionThreshold; increase_walk_depth and
\* expand_related iff precision < precisionThreshold or recall < recallThreshold;
\* increase_token_budget iff precision < min(0.4, precisionThreshold) or coverage >
\* coverageThreshold (0.85 when not configured); so a decision that does not pass
\* has a non-empty action list.
C10_ActionsExact ==
    decision.done =>
        LET actions == decision.actions
            lowPrecision == Less(decision.metrics.precisionAtK, agentConfig.precisionThreshold)
            lowRecall == Less(decision.metrics.recallAtK, agentConfig.recallThreshold)
            veryLowPrecision ==
                Less(decision.metrics.precisionAtK,
                     MinRatio(Ratio(2, 5), agentConfig.precisionThreshold))
            highCoverage == Less(EffectiveCoverageThreshold, decision.metrics.coverage)
        IN  /\ \A i, j \in 1..Len(actions) : actions[i] = actions[j] => i = j
            /\ \A i \in 1..Len(actions) : actions[i] \in EvaluationActions
            /\ Contains(actions, "enable_cross_encoder") <=> lowPrecision
            /\ Contains(actions, "increase_walk_depth") <=> (lowPrecision \/ lowRecall)
            /\ Contains(actions, "expand_related") <=> (lowPrecision \/ lowRecall)
            /\ Contains(actions, "increase_token_budget")
                   <=> (veryLowPrecision \/ highCoverage)
            /\ ~decision.pass => actions # <<>>

\* precision and recall are both low and the context fills nine tenths of the
\* budget: every branch pushed, four actions left
C10_Witness ==
    /\ decision.done
    /\ ~decision.pass
    /\ Less(decision.metrics.precisionAtK, Ratio(2, 5))
    /\ Less(decision.metrics.recallAtK, agentConfig.recallThreshold)
    /\ ~agentConfig.hasCoverageThreshold
    /\ Less(Ratio(17, 20), decision.metrics.coverage)
    /\ decision.actions = <<"enable_cross_encoder", "increase_walk_depth", "expand_related",
                            "increase_token_budget">>

InUnitInterval(r) == AtLeast(r, Ratio(0, 1)) /\ AtLeast(Ratio(1, 1), r)

\* C11 as stated: for every candidate list (also empty, also with a path repeated),
\* ground truth and maxK (also 0, negative, larger than the list), evaluate returns,
\* with precisionAtK and recallAtK in [0,1] and pass true exactly when both meet
\* their thresholds.
C11_AsStated ==
    decision.done =>
        /\ InUnitInterval(decision.metrics.precisionAtK)
        /\ InUnitInterval(decision.metrics.recallAtK)
        /\ decision.pass <=>
               /\ AtLeast(decision.metrics.precisionAtK, agentConfig.precisionThreshold)
               /\ AtLeast(decision.metrics.recallAtK, agentConfig.recallThreshold)

(***************************************************************************)
(* Claims about DependencyAwareRetriever.buildContextForChange (RetrSpec)  *)
(***************************************************************************)
identifiedTargetIds == IdsOf(targetNodesOf(retrGraph, request).nodes)

\* C12 as stated: every context buildContextForChange returns has tokensUsed, the token
\* count of the whole formatted output, at most telemetry.tokens.budget, and holds
\* every identified target node in targetNodes.
C12_AsStated ==
    dependencyContext.status = "returned" =>
        /\ dependencyContext.tokensUsed <= dependencyContext.budget
        /\ identifiedTargetIds \subseteq IdsOf(dependencyContext.targetNodes)

\* the lists buildContextForChange hands to deduplicateAndTag, as sets of node ids
eligibleIds ==
    LET targetNodes == targetNodesOf(retrGraph, request).nodes
    IN  [target |-> IdsOf(targetNodes),
         forward |-> IdsOf(getForwardDependencies(retrGraph, targetNodes,
                               request.walkDepth, request.breadthLimit)),
         backward |-> IdsOf(getBackwardDependencies(retrGraph, targetNodes,
                                request.walkDepth, request.breadthLimit))]

NoDuplicates(nodes) ==
    \A i, j \in 1..Len(nodes) : nodes[i].id = nodes[j].id => i = j

returnedIds ==
    [target |-> IdsOf(dependencyContext.targetNodes),
     forward |-> IdsOf(dependencyContext.forwardDeps),
     backward |-> IdsOf(dependencyContext.backwardDeps),
     related |-> IdsOf(dependencyContext.relatedByQuery)]

\* C13: in every returned context the four lists are pairwise disjoint and free of
\* duplicates, and a node that was a candidate for several lists is in none of the
\* lower ones: a forward node is no target, a backward node is neither a target nor a
\* forward candidate, a related node is no target, forward or backward candidate.
C13_CategoriesDisjointByPriority ==
    dependencyContext.status = "returned" =>
        /\ \A a, b \in {"target", "forward", "backward", "related"} :
               a # b => returnedIds[a] \cap returnedIds[b] = {}
        /\ NoDuplicates(dependencyContext.targetNodes)
        /\ NoDuplicates(dependencyContext.forwardDeps)
        /\ NoDuplicates(dependencyContext.backwardDeps)
        /\ NoDuplicates(dependencyContext.relatedByQuery)
        /\ returnedIds.target = eligibleIds.target
        /\ returnedIds.forward \subseteq eligibleIds.forward \ eligibleIds.target
        /\ returnedIds.backward \subseteq
               eligibleIds.backward \ (eligibleIds.target \cup eligibleIds.forward)
        /\ returnedIds.related \cap
               (eligibleIds.target \cup eligibleIds.forward \cup eligibleIds.backward) = {}

\* a node that both walks reach is returned as a forward dependency, and a node that a
\* walk and the semantic search both found is returned by the walk's list
C13_Witness ==
    /\ dependencyContext.status = "returned"
    /\ \E id \in returnedIds.forward : id \in eligibleIds.backward
    /\ \E id \in returnedIds.backward :
           \E i \in 1..Len(request.semantic) : request.semantic[i] = id
    /\ returnedIds.related # {}

RECURSIVE reaching(_, _, _)
\* the ids from which some id of the set is reached by at most depth walked edges
reaching(g, idSet, depth) ==
    IF depth = 0 THEN idSet
    ELSE LET near == reaching(g, idSet, depth - 1)
         IN  near \cup {g.edges[i].from : i \in {j \in 1..Len(g.edges) :
                            g.edges[j].to \in near /\ g.edges[j].type \in WalkedEdgeTypes}}

RECURSIVE reachedFrom(_, _, _)
\* the ids reached from some id of the set by at most depth walked edges
reachedFrom(g, idSet, depth) ==
    IF depth = 0 THEN idSet
    ELSE LET near == reachedFrom(g, idSet, depth - 1)
         IN  near \cup {g.edges[i].to : i \in {j \in 1..Len(g.edges) :
                            g.edges[j].from \in near /\ g.edges[j].type \in WalkedEdgeTypes}}

symbolIds(g, idSet) == {id \in idSet : hasNode(g, id) /\ getNode(g, id).type # "file"}

\* the non-file, non-target nodes that reach a target within walkDepth edges
callerIds ==
    symbolIds(retrGraph, reaching(retrGraph, identifiedTargetIds, request.walkDepth))
    \ identifiedTargetIds

forwardDependencyIds ==
    symbolIds(retrGraph, reachedFrom(retrGraph, identifiedTargetIds, request.walkDepth))
    \ identifiedTargetIds

\* the callers, rendered one by one after the targets, stay within 80% of the budget
callersFit ==
    LET callers == SelectSeq(retrGraph.nodes, LAMBDA n : n.id \in callerIds)
    IN  (estimateTokens(targetNodesOf(retrGraph, request).nodes)
         + sumOfLengths([i \in 1..Len(callers) |-> estimateTokens(<<callers[i]>>)])) * 100
        <= dependencyContext.budget * 80

\* C14 as stated: every node of backwardDeps is a non-file node, not a target, that
\* reaches a target by at most walkDepth edges of types imports, calls or references;
\* and when there are at most breadthLimit such nodes, none of them is a forward
\* dependency and they fit in 80% of the budget after the targets, backwardDeps holds
\* all of them.
C14_AsStated ==
    dependencyContext.status = "returned" =>
        /\ returnedIds.backward \subseteq callerIds
        /\ (/\ Cardinality(callerIds) <= request.breadthLimit
            /\ callerIds \cap forwardDependencyIds = {}
            /\ callersFit)
           => callerIds \subseteq returnedIds.backward

\* C15 as stated: the target file is the explicit targetFilePath when one is given,
\* whatever the resolver ranks first; else the path of the resolver's primary; else
\* the first candidate path; and the call fails when there is none of the three.
C15_AsStated ==
    LET res == resolutionOf(retrGraph, request)
        explicit == request.targetFilePath # NoPath
        returns == dependencyContext.status = "returned"
    IN  /\ (returns /\ explicit) =>
               dependencyContext.primaryFilePath = request.targetFilePath
        /\ (returns /\ ~explicit /\ res.hasPrimary) =>
               dependencyContext.primaryFilePath = res.candidates[1].path
        /\ (returns /\ ~explicit /\ ~res.hasPrimary) =>
               /\ Len(request.candidateFilePaths) > 0
               /\ dependencyContext.primaryFilePath = request.candidateFilePaths[1]
        /\ (/\ dependencyContext.status # "none"
            /\ ~explicit /\ ~res.hasPrimary /\ Len(request.candidateFilePaths) = 0)
           => dependencyContext.status = "threw"

(***************************************************************************)
(* Claims about HnswAnnIndex (AnnSpec)                                     *)
(***************************************************************************)
presentIds == {annIndex.nodes[i].id : i \in 1..Len(annIndex.nodes)}

\* C16 as stated: when id is present with vector v and no other present vector is
\* parallel to v, search(v, 1) returns id as its first result.
C16_AsStated ==
    \A id \in presentIds :
        (/\ annCall.op = "search"
         /\ annCall.vector = VectorOf(id)
         /\ nodeOf(annIndex.nodes, id).vector = normalize(VectorOf(id))
         /\ \A other \in presentIds \ {id} :
                nodeOf(annIndex.nodes, other).vector # nodeOf(annIndex.nodes, id).vector)
        => /\ ~annCall.threw
           /\ Len(annCall.results) > 0
           /\ annCall.results[1].id = id

\* search(query, 1) on the index returns a present vector nearest to the query
returnsNearest(ix, query, avoided) ==
    LET out == search(ix, query, 1)
        best == CHOOSE s \in {dot(normalize(query), ix.nodes[i].vector) :
                                 i \in 1..Len(ix.nodes)} :
                    \A i \in 1..Len(ix.nodes) :
                        dot(normalize(query), ix.nodes[i].vector) <= s
    IN  /\ ~out.threw
        /\ Len(out.results) > 0
        /\ out.results[1].id # avoided
        /\ out.results[1].score = best

\* C17 as stated: after remove(id), if the index is not empty, search(q, 1) returns for
\* every query q of the index dimension the present vector of highest cosine
\* similarity to q, and never the removed id.
C17_AsStated ==
    [][\A id \in AnnIds :
          (Remove(id) /\ Len(annIndex'.nodes) > 0) =>
              \A query \in AnnQueries :
                  Len(query) = annIndex'.vectorDimension =>
                      returnsNearest(annIndex', query, id)]_vars

\* C18 as stated: once a first insert has fixed the dimension, every add of a vector of
\* another length raises and every search with a query of another length raises, in
\* every state reached by add and remove, an emptied index included.
C18_AsStated ==
    [][annIndex.vectorDimension # 0 =>
          /\ \A id \in AnnIds, level \in 0..MaxAnnLevel, vector \in OtherVectors :
                 (Add(id, vector, level) /\ Len(vector) # annIndex.vectorDimension)
                 => annCall'.threw
          /\ \A query \in AnnQueries :
                 (Search(query) /\ Len(query) # annIndex.vectorDimension)
                 => annCall'.threw]_vars

(***************************************************************************)
(* Claims about the CodeGraph indexes (GraphSpec)                          *)
(***************************************************************************)
nodesWithPath(g, path) == {g.nodes[id] : id \in {i \in DOMAIN g.nodes : g.nodes[i].path = path}}
edgesWithFrom(g, nodeId) == {g.edges[id] : id \in {i \in DOMAIN g.edges : g.edges[i].from = nodeId}}

\* C19: after any sequence of CodeGraph mutations getNodesByPath(p) returns exactly the
\* nodes whose path is p, and getOutgoingEdges(id) exactly the edges whose from is id,
\* also after an upsert that moves a node to another path or an edge to another from,
\* and after removeNode has dropped incoming edges of other nodes.
C19_IndexesExact ==
    /\ \A p \in Paths : indexedNodes(cg, p) = nodesWithPath(cg, p)
    /\ \A id \in NodeIds : getOutgoingEdges(cg, id) = edgesWithFrom(cg, id)

\* upsertEdge has just stored an edge whose from differs from a node that keeps an
\* emptied outgoing set, while one path holds two nodes and the other path none
C19_Witness ==
    /\ lastCall.op = "upsertEdge" /\ ~lastCall.threw
    /\ \E n \in DOMAIN cg.edgesByNode :
           /\ n # cg.edges[lastCall.arg].from
           /\ Has(cg.nodes, n)
           /\ cg.edgesByNode[n] = {}
    /\ \E p \in Paths : Cardinality(indexedNodes(cg, p)) = 2
    /\ \E p \in Paths : ~Has(cg.nodesByPath, p)

(***************************************************************************)
(* Claims about InMemoryGraphStore (StoreSpec)                             *)
(***************************************************************************)
\* C20: the store keeps a deep copy: whatever was done, after save(g), through g or
\* through a graph that load() returned earlier, load() returns the content g had
\* when it was saved.
C20_AsStated ==
    (memCall.op = "load" /\ ~memCall.isNull)
        => contentOf(held["loaded"], nodeObjects) = savedContent

(***************************************************************************)
(* Claims about GraphBuilder.build (BuildSpec)                             *)
(***************************************************************************)
nodesOfFile(g, filePath) == {n \in getAllNodes(g) : n.path = filePath}

\* C21: when parsing one source file fails, build() skips that file and still returns
\* a graph: it holds the nodes of every parsable file and none of the failing file.
C21_AsStated ==
    buildResult.status # "none" =>
        /\ buildResult.status = "returned"
        /\ \A filePath \in {"a", "b"} :
               IF parseContentThrows(buildResult.files, filePath)
               THEN nodesOfFile(buildResult.graph, filePath) = {}
               ELSE createFileNodeId(filePath) \in DOMAIN buildResult.graph.nodes

(***************************************************************************)
(* Claims about clampTokenBudget (BudgetSpec)                              *)
(***************************************************************************)
inWindow(x) ==
    /\ isFinite(x)
    /\ ~lessThan(x, Finite(6000, 1))
    /\ ~lessThan(Finite(12000, 1), x)

\* C22: for every requested maxTokens the budget lies in [6000, 12000]; it is
\* floor(maxTokens) when 6000 <= maxTokens <= 12000, 6000 for a smaller request and
\* for NaN, 12000 for a larger one.
C22_BudgetWindow ==
    clampedBudget.clamped =>
        /\ clampedBudget.budget \in 6000..12000
        /\ inWindow(requestedTokens) =>
               /\ clampedBudget.budget * requestedTokens.den <= requestedTokens.num
               /\ requestedTokens.num < (clampedBudget.budget + 1) * requestedTokens.den
        /\ (requestedTokens = NaN \/ (requestedTokens # NaN
                                       /\ lessThan(requestedTokens, Finite(6000, 1))))
               => clampedBudget.budget = 6000
        /\ (requestedTokens # NaN /\ lessThan(Finite(12000, 1), requestedTokens))
               => clampedBudget.budget = 12000

\* a request inside the window that is not a whole number has been clamped
C22_Witness ==
    /\ clampedBudget.clamped
    /\ inWindow(requestedTokens)
    /\ requestedTokens.num % requestedTokens.den # 0
    /\ clampedBudget.budget > 6000

(***************************************************************************)
(* Claims about recorded modifications (MgrSpec)                           *)
(***************************************************************************)
\* C23: after any sequence of recordFileModification calls on an initialized manager,
\* getGraph() (and the getGraph that ends recordFileModification) returns a graph
\* without raising.
C23_AsStated ==
    (mgrCall.op \in {"recordFileModification", "getGraph"} /\ mgrCall.threw)
        => baseGraph = Null

\* the base edges that come from a node of another file into a node of filePath that
\* the graph still holds under the same id
incomingKept(baseG, g, filePath) ==
    {e \in getAllEdges(baseG) :
        /\ baseG.nodes[e.from].path # filePath
        /\ baseG.nodes[e.to].path = filePath
        /\ Has(g.nodes, e.from) /\ Has(g.nodes, e.to)}

\* C24: after recordFileModification(p) the graph getGraph() returns still holds every
\* base edge from a node of another file to a node of p whose id the new snapshot
\* keeps (here for the first path recorded in an overlay).
C24_AsStated ==
    (mgrCall.op = "recordFileModification" /\ returned.status = "ok")
        => \A filePath \in MgrPaths :
               overlayModifiedPaths = {filePath}
                   => incomingKept(heap[baseGraph].g, heap[returned.ref].g, filePath)
                          \subseteq getAllEdges(heap[returned.ref].g)

\* C25: recordFileModification is all-or-nothing: when the call fails, the pending
\* overlay's operations, the modified-path set and the hooks fired are as before it.
C25_AsStated ==
    [][((\E filePath \in MgrPaths : RecordFileModification(filePath)) /\ mgrCall'.threw)
           => /\ overlay' = overlay
              /\ overlayModifiedPaths' = overlayModifiedPaths
              /\ hookLog' = hookLog]_vars

\* C26: a live overlay is never dropped silently: whenever the pending overlay goes
\* from an overlay with operations to none, onOverlayCommitted or onOverlayDiscarded
\* has fired for its id.
C26_AsStated ==
    [][(overlay.live /\ ~isEmpty(overlay.operations) /\ ~overlay'.live)
           => \E i \in 1..Len(hookLog') :
                  /\ hookLog'[i].id = overlay.id
                  /\ hookLog'[i].hook \in {"onOverlayCommitted", "onOverlayDiscarded"}]_vars


(***************************************************************************)
(* Claims about Bm25Index (Bm25Spec)                                       *)
(***************************************************************************)
RECURSIVE freshIndex(_, _)
\* a new Bm25Index given the latest text of each document, in the order of these calls
freshIndex(docList, texts) ==
    IF docList = <<>> THEN EmptyBm25Index
    ELSE addDocument(freshIndex(SubSeq(docList, 1, Len(docList) - 1), texts),
                     docList[Len(docList)].id, texts[docList[Len(docList)].id])

RECURSIVE tokenCount(_, _)
tokenCount(docList, texts) ==
    IF docList = <<>> THEN 0
    ELSE Len(tokenize(texts[Head(docList).id])) + tokenCount(Tail(docList), texts)

BmTerms == UNION {{tokenize(text)[i] : i \in 1..Len(tokenize(text))} :
                     text \in BmTexts \cup BmQueries}

\* C27: after any sequence of addDocument, removeDocument and reset the document
\* frequency of each term is the number of indexed documents whose latest text holds
\* it, the total document length is the sum of their token counts, and search returns
\* the hits and scores of a fresh index given the latest text of each indexed id
C27_FrequenciesExact ==
    /\ DOMAIN latestText = {documents[i].id : i \in 1..Len(documents)}
    /\ \A i, j \in 1..Len(documents) : documents[i].id = documents[j].id => i = j
    /\ \A t \in BmTerms :
           (IF Has(documentFrequency, t) THEN documentFrequency[t] ELSE 0)
               = Cardinality({i \in 1..Len(documents) :
                                 \E k \in 1..Len(tokenize(latestText[documents[i].id])) :
                                     tokenize(latestText[documents[i].id])[k] = t})
    /\ DOMAIN documentFrequency \subseteq BmTerms
    /\ totalDocumentLength = tokenCount(documents, latestText)
    /\ \A query \in BmQueries, topK \in TopKs :
           bm25Search(bm25Index, query, topK)
               = bm25Search(freshIndex(documents, latestText), query, topK)

\* an addDocument has replaced the entry of an indexed id, and a search finds both
\* documents with different scores
C27_Witness ==
    /\ bmCall.op = "addDocument" /\ bmCall.replaced
    /\ \E query \in BmQueries :
           /\ Len(bm25Search(bm25Index, query, 2)) = 2
           /\ bm25Search(bm25Index, query, 2)[1].score > bm25Search(bm25Index, query, 2)[2].score


(***************************************************************************)
(* Claims about failed and repeated calls on HnswAnnIndex (AnnSpec)        *)
(***************************************************************************)
\* C28 as stated: an add that raises (zero-length vector or dimension mismatch) leaves
\* the index as it was: the same nodes with their vectors and neighbour links, the
\* same entry point, max level and dimension, also when the id was already indexed.
C28_AsStated ==
    [][((\E id \in AnnIds, level \in 0..MaxAnnLevel, vector \in OtherVectors :
             Add(id, vector, level)) /\ annCall'.threw)
           => annIndex' = annIndex]_vars


\* the highest level among the indexed nodes, 0 for none
highestLevel(ix) ==
    LET levels == {ix.nodes[i].level : i \in 1..Len(ix.nodes)} \cup {0}
    IN  CHOOSE l \in levels : \A m \in levels : m <= l

C30_AsStated ==
    \A text \in settled : reloadedGet(cacheFile, text) = lastSet[text]

====
